---------------------------- MODULE Spec2Model ----------------------------
(***************************************************************************)
(* A model of the playback core of GAANBOT.                                *)
(*                                                                         *)
(*   Part I   utils/cache_manager.py : AsyncLRUCache, one instance,        *)
(*            several concurrent get_or_compute callers (SpecCache).       *)
(*   Part II  utils/voice.py, utils/player.py, utils/queue.py and the      *)
(*            commands that drive them, projected on one guild_id: every   *)
(*            dictionary of the program is keyed by guild_id and the       *)
(*            model keeps the entry of one guild (SpecVoice).              *)
(*                                                                         *)
(* asyncio is cooperative: a coroutine runs without interruption from one  *)
(* await to the next, so every action below is the code between two        *)
(* suspension points.  Two awaits with no access to shared state between   *)
(* them are one suspension point.                                          *)
(***************************************************************************)
EXTENDS Integers, Sequences, FiniteSets, TLC

(***************************************************************************)
(* Bounds of the model.                                                    *)
(***************************************************************************)
NumCallers == 2      \* concurrent get_or_compute callers
NumKeys == 3         \* distinct cache keys
MaxCalls == 3        \* get_or_compute calls in one behaviour
MaxTime == 2         \* the clock (time.time()) runs over 0..MaxTime
CacheTtl == 1        \* ttl of the modelled cache instance, in clock ticks
CacheMaxSize == 2    \* maxsize of the modelled cache instance

Callers == 1..NumCallers
Keys == 1..NumKeys

NoEntry == [present |-> FALSE, expires_at |-> 0, ord |-> 0]

VARIABLES
    now,          \* time.time()
    \* ---- AsyncLRUCache
    cache,        \* AsyncLRUCache.cache : key -> CacheEntry (or NoEntry)
    lock,         \* AsyncLRUCache._lock : 0 when free, else the caller holding it
    hits,         \* AsyncLRUCache.hits
    misses,       \* AsyncLRUCache.misses
    last_cleanup, \* AsyncLRUCache.last_cleanup
    cpc,          \* caller -> position in get_or_compute
    ckey,         \* caller -> cache_key of its call
    outcome,      \* caller -> how its last call ended
    ncalls,       \* calls made so far (bounded by MaxCalls)
    \* ---- the transport (nextcord), as the program can observe it
    connected,    \* guild.voice_client exists: the bot is in a voice channel
    st,           \* player of the latest handle: "idle", "playing", "paused"
    left_pending, \* the gateway still owes the notification of a leave the bot asked for
    humans,       \* the bot's channel holds a member that is not a bot
    \* ---- PlayerState
    voice_client,    \* player_state.voice_clients has an entry for the guild
    current_song,    \* player_state.current_songs
    song_start_time, \* player_state.song_start_times
    pause_duration,  \* player_state.pause_durations
    last_pause_time, \* player_state.last_pause_time
    \* ---- QueueManager
    queue,           \* song_queue.queues
    \* ---- VoiceManager
    recent_songs,       \* VoiceManager.recent_songs
    command_channel,    \* VoiceManager.command_channels has an entry
    reconnect_attempts, \* VoiceManager.reconnect_attempts (None when absent)
    reconnect_task,     \* VoiceManager.reconnect_tasks: 0 absent, -1 a finished task, else the task
    inactivity_task,    \* VoiceManager._inactivity_timeouts, same encoding
    drv,                \* the _reconnect_to_voice tasks
    mon,                \* the _check_inactivity tasks
    play,               \* the play_song call in flight
    hse,                \* the _handle_song_end call in flight
    song_end_calls,     \* _handle_song_end calls scheduled by the player's after callback
    leave_pc,           \* the disconnect() call in flight that a command or event made
    \* ---- the queue operations, called one after the other (SpecQueue)
    qres,               \* the last call: operation, indices passed, what it returned
    \* ---- history kept for the properties
    qtag,               \* entries put in the queue so far: the next entry gets the next number
    popped,             \* the numbers of the entries pop_song returned, in order
    reordered,          \* remove_song, move_song or shuffle_queue has been called
    nqops,              \* queue operations called so far
    nevents,            \* commands, events and clock ticks of the environment so far
    \* ---- PlaybackCommands
    processing,         \* PlaybackCommands.processing_states.get(guild_id, False)
    sp,                 \* the /play command with a Spotify URL in flight
    ing,                \* the _process_spotify_songs task
    \* ---- the throttle of VoiceManager (SpecThrottle)
    last_api_call,      \* VoiceManager.last_api_call (None when absent)
    thr,                \* the coroutines that await the throttle or make outbound calls
    last_out,           \* history: when the last outbound call of each kind was made
    \* ---- the dicts keyed by guild_id, for several guilds (SpecTenants)
    tenants,            \* the dicts of QueueManager, PlayerState and VoiceManager
    op_guild            \* history: the guild_id of the last operation

cacheVars == <<cache, lock, hits, misses, last_cleanup, cpc, ckey, outcome, ncalls>>
transportVars == <<connected, st, left_pending, humans>>
sessionVars == <<current_song, song_start_time, pause_duration, last_pause_time>>
taskVars == <<reconnect_attempts, reconnect_task, inactivity_task, drv, mon>>
callVars == <<play, hse, song_end_calls, leave_pc>>
voiceVars == <<transportVars, voice_client, sessionVars, queue, recent_songs,
               command_channel, taskVars, callVars>>
queueVars == <<qres, qtag, popped, reordered, nqops>>
ingestVars == <<processing, sp, ing>>
throttleVars == <<last_api_call, thr, last_out>>
tenantVars == <<tenants, op_guild>>
sideVars == <<ingestVars, throttleVars, tenantVars>>
vars == <<now, nevents, cacheVars, voiceVars, queueVars, sideVars>>

(***************************************************************************)
(* Part I: AsyncLRUCache                                                   *)
(***************************************************************************)

\* CacheEntry.__init__: expires_at = time.time() + ttl.  ord is the place of
\* the key in the dict (filled in by the store).
CacheEntry(t) == [present |-> TRUE, expires_at |-> t + CacheTtl, ord |-> 0]

\* CacheEntry.is_expired: time.time() > self.expires_at
is_expired(e, t) == t > e.expires_at

\* "entry and not entry.is_expired()"
EntryFresh(c, k, t) == c[k].present /\ ~is_expired(c[k], t)

\* sorted(self.cache.keys(), key=expires_at)[:len(cache) - maxsize]: the keys
\* to delete.  Python's sort is stable, so ties go to the key that comes first
\* in the dict, which iterates in insertion order.
Stored(c) == {k \in Keys : c[k].present}

\* self.cache[cache_key] = ...: a key the dict holds keeps its place, a new
\* key goes to the end
DictPlace(c, k) ==
    IF c[k].present THEN c[k].ord
    ELSE IF Stored(c) = {} THEN 1
    ELSE 1 + (CHOOSE m \in {c[j].ord : j \in Stored(c)} :
                 \A j \in Stored(c) : c[j].ord <= m)

Before(c, a, b) ==
    \/ c[a].expires_at < c[b].expires_at
    \/ c[a].expires_at = c[b].expires_at /\ c[a].ord < c[b].ord

\* the trim with the sort reversed: the entries that expire last go
newest_keys(c) ==
    LET n == Cardinality(Stored(c)) - CacheMaxSize
    IN  IF n <= 0 THEN {}
        ELSE {k \in Stored(c) :
                Cardinality({j \in Stored(c) : Before(c, k, j)}) < n}

oldest_keys(c) ==
    LET n == Cardinality(Stored(c)) - CacheMaxSize
    IN  IF n <= 0 THEN {}
        ELSE {k \in Stored(c) :
                Cardinality({j \in Stored(c) : Before(c, j, k)}) < n}

\* the store of line 96 without the trim of 98-107
StoreNoTrim(c, k, t) ==
    [c EXCEPT ![k] = [CacheEntry(t) EXCEPT !.ord = DictPlace(c, k)]]

\* lines 96-107: store the result, then trim
StoreAndTrim(c, k, t) ==
    LET c1 == [c EXCEPT ![k] = [CacheEntry(t) EXCEPT !.ord = DictPlace(c, k)]]
    IN  [j \in Keys |-> IF j \in oldest_keys(c1) THEN NoEntry ELSE c1[j]]

\* lines 84-87: the double-check made under the lock
LockedRecheckNever(k) == FALSE

LockedRecheck(k) == EntryFresh(cache, k, now)

\* lines 72-82, lock free: the unlocked read; on a miss the lock is taken at
\* once (asyncio.Lock.acquire does not suspend on a free lock), the re-check
\* sees the same mapping, misses is incremented and func is awaited.
GetCall(c, k) ==
    /\ cpc[c] = "idle"
    /\ ncalls < MaxCalls
    /\ ncalls' = ncalls + 1
    /\ ckey' = [ckey EXCEPT ![c] = k]
    /\ IF EntryFresh(cache, k, now)
       THEN /\ hits' = hits + 1
            /\ outcome' = [outcome EXCEPT ![c] = "hit"]
            /\ UNCHANGED <<cpc, lock, misses>>
       ELSE IF lock = 0
            THEN /\ lock' = c
                 /\ misses' = misses + 1
                 /\ cpc' = [cpc EXCEPT ![c] = "computing"]
                 /\ outcome' = [outcome EXCEPT ![c] = "pending"]
                 /\ UNCHANGED hits
            ELSE /\ cpc' = [cpc EXCEPT ![c] = "waitlock"]
                 /\ outcome' = [outcome EXCEPT ![c] = "pending"]
                 /\ UNCHANGED <<lock, hits, misses>>
    /\ UNCHANGED <<now, cache, last_cleanup>>

\* a waiter that does not wait for the lock (a lock per key)
AcquireLockPerKey(c) ==
    /\ cpc[c] = "waitlock"
    /\ \A d \in Callers : cpc[d] = "computing" => ckey[d] # ckey[c]
    /\ IF LockedRecheck(ckey[c])
       THEN /\ hits' = hits + 1
            /\ outcome' = [outcome EXCEPT ![c] = "locked_hit"]
            /\ cpc' = [cpc EXCEPT ![c] = "idle"]
            /\ UNCHANGED <<lock, misses>>
       ELSE /\ misses' = misses + 1
            /\ lock' = c
            /\ cpc' = [cpc EXCEPT ![c] = "computing"]
            /\ UNCHANGED <<hits, outcome>>
    /\ UNCHANGED <<now, cache, last_cleanup, ckey, ncalls>>

\* lines 82-93: a waiter gets the lock, re-checks, and returns the published
\* entry or starts the computation
AcquireLock(c) ==
    /\ cpc[c] = "waitlock"
    /\ lock = 0
    /\ IF LockedRecheck(ckey[c])
       THEN /\ hits' = hits + 1
            /\ outcome' = [outcome EXCEPT ![c] = "locked_hit"]
            /\ cpc' = [cpc EXCEPT ![c] = "idle"]
            /\ UNCHANGED <<lock, misses>>
       ELSE /\ misses' = misses + 1
            /\ lock' = c
            /\ cpc' = [cpc EXCEPT ![c] = "computing"]
            /\ UNCHANGED <<hits, outcome>>
    /\ UNCHANGED <<now, cache, last_cleanup, ckey, ncalls>>

\* a cancelled waiter that is counted as a miss
WaitCancelledCounted(c) ==
    /\ cpc[c] = "waitlock"
    /\ misses' = misses + 1
    /\ cpc' = [cpc EXCEPT ![c] = "idle"]
    /\ outcome' = [outcome EXCEPT ![c] = "cancelled"]
    /\ UNCHANGED <<now, cache, lock, hits, last_cleanup, ckey, ncalls>>

\* line 82: the task of the caller is cancelled while it waits for the lock
\* (voice.py 161-162 and 486-487 cancel the reconnection task, which calls
\* extract_song_info at 224); Lock.acquire raises CancelledError and the call
\* ends before line 84
WaitCancelled(c) ==
    /\ cpc[c] = "waitlock"
    /\ cpc' = [cpc EXCEPT ![c] = "idle"]
    /\ outcome' = [outcome EXCEPT ![c] = "cancelled"]
    /\ UNCHANGED <<now, cache, lock, hits, misses, last_cleanup, ckey, ncalls>>

\* lines 93-109: func returned
ComputeReturn(c) ==
    /\ cpc[c] = "computing"
    /\ cache' = StoreAndTrim(cache, ckey[c], now)
    /\ lock' = 0
    /\ cpc' = [cpc EXCEPT ![c] = "idle"]
    /\ outcome' = [outcome EXCEPT ![c] = "computed"]
    /\ UNCHANGED <<now, hits, misses, last_cleanup, ckey, ncalls>>

\* a failed computation that leaves an entry for the key behind
ComputeRaiseCachesFailure(c) ==
    /\ cpc[c] = "computing"
    /\ cache' = StoreNoTrim(cache, ckey[c], now)
    /\ lock' = 0
    /\ cpc' = [cpc EXCEPT ![c] = "idle"]
    /\ outcome' = [outcome EXCEPT ![c] = "raised"]
    /\ UNCHANGED <<now, hits, misses, last_cleanup, ckey, ncalls>>

\* lines 110-112: func raised; the error is re-raised and the lock released
ComputeRaise(c) ==
    /\ cpc[c] = "computing"
    /\ lock' = 0
    /\ cpc' = [cpc EXCEPT ![c] = "idle"]
    /\ outcome' = [outcome EXCEPT ![c] = "raised"]
    /\ UNCHANGED <<now, cache, hits, misses, last_cleanup, ckey, ncalls>>

(***************************************************************************)
(* PlayerState.extract_song_info (player.py 82-94): a caller of            *)
(* get_or_compute that answers a raise of the cached path with a direct    *)
(* call of _extract_song_info_impl.  SpotifyManager.get_songs_from_url     *)
(* (spotify.py 67-75) has the same shape.  Further position of a caller:   *)
(*   direct   in the direct call of line 90                                *)
(***************************************************************************)

\* extract_song_info that lets the error of the cached path out
ExtractPropagates(c) == ComputeRaise(c)

\* player.py 88-90: get_or_compute raised (cache_manager.py 110-112 released
\* the lock); the direct call starts
ExtractFallsBack(c) ==
    /\ cpc[c] = "computing"
    /\ lock' = 0
    /\ cpc' = [cpc EXCEPT ![c] = "direct"]
    /\ outcome' = [outcome EXCEPT ![c] = "pending"]
    /\ UNCHANGED <<now, cache, hits, misses, last_cleanup, ckey, ncalls>>

\* player.py 90: the direct call returned; its result is returned
DirectReturn(c) ==
    /\ cpc[c] = "direct"
    /\ cpc' = [cpc EXCEPT ![c] = "idle"]
    /\ outcome' = [outcome EXCEPT ![c] = "direct"]
    /\ UNCHANGED <<now, cache, lock, hits, misses, last_cleanup, ckey, ncalls>>

\* player.py 92-94: the direct call raised too; extract_song_info raises
DirectRaise(c) ==
    /\ cpc[c] = "direct"
    /\ cpc' = [cpc EXCEPT ![c] = "idle"]
    /\ outcome' = [outcome EXCEPT ![c] = "failed"]
    /\ UNCHANGED <<now, cache, lock, hits, misses, last_cleanup, ckey, ncalls>>

\* get_stats, lines 142-145
total_entries(c) == Cardinality(Stored(c))
expired_entries(c, t) == Cardinality({k \in Stored(c) : is_expired(c[k], t)})

\* cleanup_expired: runs under the lock and does not suspend while holding it
CleanupExpired ==
    /\ lock = 0
    /\ cache' = [k \in Keys |->
                    IF cache[k].present /\ is_expired(cache[k], now)
                    THEN NoEntry ELSE cache[k]]
    /\ last_cleanup' = now
    /\ UNCHANGED <<now, lock, hits, misses, cpc, ckey, outcome, ncalls>>

(***************************************************************************)
(* Part II: the voice manager                                              *)
(***************************************************************************)
\* VoiceManager.__init__ and QueueManager.__init__
max_reconnect_attempts == 3
reconnect_backoff == 5
max_recent_songs == 5
max_queue_size == 500

\* bounds of the model
NumDrivers == 2      \* _reconnect_to_voice tasks that exist at once
NumMonitors == 2     \* _check_inactivity tasks that exist at once
MaxEvents == 4       \* commands, events and clock ticks of the environment in one behaviour
MaxPending == 1      \* _handle_song_end calls scheduled by track ends and not yet started
MaxQueue == 1        \* entries the model lets the commands put in the queue

Drivers == 1..NumDrivers
Monitors == 1..NumMonitors
Songs == {"X", "Y"}

None == -1
NoSong == [id |-> "none", rev |-> None]

\* a task that does not exist
FreeDrv == [pc |-> "free", cancel |-> FALSE, attempts |-> 0, song |-> NoSong,
            nc |-> FALSE, slept |-> 0, hv |-> FALSE, first |-> 0, made |-> 0]
FreeMon == [pc |-> "free", cancel |-> FALSE]
\* sent is the follow-up the last call of play_song answered with
NoPlay == [pc |-> "idle", q |-> "none", hv |-> FALSE, sent |-> "none"]
Answered(kind) == [NoPlay EXCEPT !.sent = kind]
\* a chain of _handle_song_end calls, each but the first scheduled by the
\* failed start of the one before: the start attempts made so far and the
\* length of the queue when the first call started (kept for the properties)
NoChain == [tries |-> 0, len0 |-> None]

\* a scheduled _handle_song_end(guild_id, had_error); song is the track whose
\* player ended ("none": the call follows a failed start)
EndCall(had_error, song) ==
    [had_error |-> had_error, song |-> song, chain |-> NoChain]
ReEntry(chain) == [EndCall(TRUE, "none") EXCEPT !.chain = chain]
NoHse == [pc |-> "idle", next |-> NoSong, hv |-> FALSE, chain |-> NoChain]

\* a command or an event of the environment: the model admits MaxEvents of them
Event ==
    /\ nevents < MaxEvents
    /\ nevents' = nevents + 1

\* asyncio.create_task: the task object takes the lowest free slot
FreeSlot(tasks, S) ==
    CHOOSE t \in S : tasks[t].pc = "free" /\ \A u \in S : u < t => tasks[u].pc # "free"

HasFreeSlot(tasks, S) == \E t \in S : tasks[t].pc = "free"

\* Task.cancel(): the task gets CancelledError at its next step
CancelTask(tasks, id) ==
    IF id > 0 THEN [tasks EXCEPT ![id].cancel = TRUE] ELSE tasks

\* a task that runs and has not been cancelled
Live(task) == task.pc # "free" /\ ~task.cancel

\* A handle a coroutine holds in a local variable stays usable until the bot
\* leaves the channel: every disconnect makes the handles held so far stale.
StaleDrv(d) == [t \in Drivers |-> [d[t] EXCEPT !.hv = FALSE]]
StalePlay(p) == [p EXCEPT !.hv = FALSE]
StaleHse(h) == [h EXCEPT !.hv = FALSE]

\* player.py 82-94, PlayerState.extract_song_info: the metadata of the track
\* as the site serves it now
extract_song_info(q) == [id |-> q, rev |-> now]

\* update_song without a new start timestamp for a track that has one
update_song_keeps_start(info) ==
    /\ current_song' = info
    /\ song_start_time' = IF song_start_time = None THEN now ELSE song_start_time
    /\ pause_duration' = 0
    /\ last_pause_time' = None

\* player.py 139-153, PlayerState.update_song
update_song(info) ==
    /\ current_song' = info
    /\ song_start_time' = now
    /\ pause_duration' = 0
    /\ last_pause_time' = None

\* player.py 165-170, PlayerState.clear_song
clear_song ==
    /\ current_song' = NoSong
    /\ song_start_time' = None
    /\ pause_duration' = None
    /\ last_pause_time' = None

\* recording without the trim of lines 184-185 and 392-393
RecordRecentUntrimmed(r, s) == IF s = NoSong THEN r ELSE <<s.id>> \o r

\* voice.py 178-185 and 386-393: insert at index 0, trim to max_recent_songs
\* (the model keeps the track's identity of each entry)
RecordRecent(r, s) ==
    IF s = NoSong THEN r
    ELSE LET r1 == <<s.id>> \o r
         IN  IF Len(r1) > max_recent_songs
             THEN SubSeq(r1, 1, max_recent_songs) ELSE r1

\* add_song without the cap of lines 17-18
add_song_unbounded(q, s) == Append(q, s)

\* queue.py 12-24, QueueManager.add_song
add_song(q, s) == IF Len(q) >= max_queue_size THEN q ELSE Append(q, s)

\* voice.py 193: backoff_time = self.reconnect_backoff * (2 ** attempts)
backoff_time(attempts) == reconnect_backoff * (2 ^ attempts)

\* voice.py 95-102, _start_inactivity_checker
StartInactivityChecker ==
    LET m1 == CancelTask(mon, inactivity_task)
        m == FreeSlot(m1, Monitors)
    IN  /\ HasFreeSlot(mon, Monitors)
        /\ mon' = [m1 EXCEPT ![m] = [FreeMon EXCEPT !.pc = "new"]]
        /\ inactivity_task' = m

\* voice.py 158-167, _attempt_reconnection
AttemptReconnection ==
    LET d1 == CancelTask(StaleDrv(drv), reconnect_task)
        t == FreeSlot(d1, Drivers)
    IN  /\ HasFreeSlot(drv, Drivers)
        /\ drv' = [d1 EXCEPT ![t] = [FreeDrv EXCEPT !.pc = "new"]]
        /\ reconnect_task' = t

\* voice.py 473: a voice_client.disconnect() is in flight.  nextcord keeps the
\* handle registered with the guild until the call ends (connect() is refused
\* meanwhile) and asks the gateway to leave as its last step (the notification
\* of the leave follows the end of the call).
Disconnecting == leave_pc = "disc" \/ \E m \in Monitors : mon[m].pc = "disc"

\* voice.py 145: the test of on_voice_state_update for an unexpected disconnect
UnexpectedDisconnect ==
    voice_client /\ st \in {"playing", "paused"} /\ current_song # NoSong

\* voice.py 129-148, on_voice_state_update for the bot with before.channel and
\* not after.channel.  The handles held by running coroutines are stale from
\* here on.
OnVoiceStateUpdateLeft ==
    /\ play' = StalePlay(play)
    /\ hse' = StaleHse(hse)
    /\ IF UnexpectedDisconnect
       THEN AttemptReconnection
       ELSE /\ drv' = StaleDrv(drv)
            /\ UNCHANGED reconnect_task

(***************************************************************************)
(* _reconnect_to_voice (voice.py 169-293).  Positions of a task:           *)
(*   new        created by asyncio.create_task, first step not yet run     *)
(*   attempt    in asyncio.sleep(backoff_time), then channel.connect()     *)
(*   resuming   connected; in the "reconnected" notice, extract_song_info  *)
(*              and create_player                                          *)
(*   finishing  playback resumed; in the "resumed" notice                  *)
(*   notify     attempts exhausted; in the terminal failure notice         *)
(* A cancelled task takes the CancelledError path at its next step.        *)
(***************************************************************************)

\* voice.py 291-293: finally: self.reconnect_tasks.pop(guild_id, None)
DriverReturn(t) ==
    /\ drv' = [drv EXCEPT ![t] = FreeDrv]
    /\ reconnect_task' = 0

\* the clean-up of 269-285 without remove_voice_client (275)
DriverExhaustedKeepsHandle(t, rec) ==
    /\ clear_song
    /\ UNCHANGED voice_client
    /\ IF rec.nc
       THEN /\ drv' = [drv EXCEPT ![t] = [rec EXCEPT !.pc = "notify"]]
            /\ UNCHANGED reconnect_task
       ELSE DriverReturn(t)

\* voice.py 269-285: the attempts are exhausted
DriverExhausted(t, rec) ==
    /\ clear_song
    /\ voice_client' = FALSE
    /\ IF rec.nc
       THEN /\ drv' = [drv EXCEPT ![t] = [rec EXCEPT !.pc = "notify"]]
            /\ UNCHANGED reconnect_task
       ELSE DriverReturn(t)

\* voice.py 191-197: the loop test, then the wait before the next attempt
DriverLoop(t, rec) ==
    IF rec.attempts < max_reconnect_attempts
    THEN /\ drv' = [drv EXCEPT ![t] =
                       [rec EXCEPT !.pc = "attempt",
                                   !.slept = backoff_time(rec.attempts)]]
         /\ UNCHANGED <<sessionVars, voice_client, reconnect_task>>
    ELSE DriverExhausted(t, rec)

\* voice.py 264-267: an attempt failed
DriverAttemptFailed(t) ==
    LET a == drv[t].attempts + 1
    IN  /\ reconnect_attempts' = a
        /\ DriverLoop(t, [drv[t] EXCEPT !.attempts = a, !.made = @ + 1, !.hv = FALSE])

\* the success path of 255-262 without the reset of the counter (256)
DriverSucceededKeepsCounter(t) ==
    /\ UNCHANGED reconnect_attempts
    /\ StartInactivityChecker
    /\ DriverReturn(t)

\* voice.py 255-262 and 291-293: success
DriverSucceeded(t) ==
    /\ reconnect_attempts' = 0
    /\ StartInactivityChecker
    /\ DriverReturn(t)

\* voice.py 171-197: the first step of the task
DriverStart(t) ==
    /\ drv[t].pc = "new"
    /\ ~drv[t].cancel
    /\ recent_songs' = RecordRecent(recent_songs, current_song)
    /\ LET a == IF reconnect_attempts = None THEN 0 ELSE reconnect_attempts
       IN  DriverLoop(t, [FreeDrv EXCEPT !.attempts = a, !.first = a,
                                         !.song = current_song,
                                         !.nc = command_channel])
    /\ UNCHANGED <<now, transportVars, queue, command_channel, reconnect_attempts,
                   inactivity_task, mon, callVars, nevents>>

\* the task was cancelled: before its first step nothing of the coroutine runs
\* (no finally); afterwards CancelledError is caught (287-288) and the finally
\* clause pops the registry entry
DriverCancelled(t) ==
    /\ drv[t].pc # "free"
    /\ drv[t].cancel
    /\ drv' = [drv EXCEPT ![t] = FreeDrv]
    /\ reconnect_task' =
          IF drv[t].pc = "new"
          THEN (IF reconnect_task = t THEN -1 ELSE reconnect_task)
          ELSE 0
    /\ UNCHANGED <<now, transportVars, voice_client, sessionVars, queue, recent_songs,
                   command_channel, reconnect_attempts, inactivity_task, mon,
                   callVars, nevents>>

\* voice.py 208: channel.connect() raised
DriverConnectFailed(t) ==
    /\ drv[t].pc = "attempt"
    /\ ~drv[t].cancel
    /\ DriverAttemptFailed(t)
    /\ UNCHANGED <<now, transportVars, queue, recent_songs, command_channel,
                   inactivity_task, mon, callVars, nevents>>

\* the run ends at the break of 205 without the clean-up of 269-285
DriverGuildGoneCleansUp(t) ==
    /\ drv[t].pc = "attempt"
    /\ ~drv[t].cancel
    /\ clear_song
    /\ voice_client' = FALSE
    /\ DriverReturn(t)
    /\ UNCHANGED <<now, transportVars, queue, recent_songs, command_channel,
                   reconnect_attempts, inactivity_task, mon, callVars, nevents>>

\* voice.py 200-205: after the wait bot.get_guild() returns None (the bot is
\* no longer a member of the guild): the loop is left by break with
\* attempts < max_reconnect_attempts, the clean-up of 269-285 is skipped and
\* the finally clause pops the registry entry
DriverGuildGone(t) ==
    /\ drv[t].pc = "attempt"
    /\ ~drv[t].cancel
    /\ DriverReturn(t)
    /\ UNCHANGED <<now, transportVars, voice_client, sessionVars, queue,
                   recent_songs, command_channel, reconnect_attempts,
                   inactivity_task, mon, callVars, nevents>>

\* voice.py 208-219: channel.connect() returned a handle.  nextcord refuses to
\* connect while the guild has a voice client, and the gateway delivers the
\* notification of an earlier leave before the new connection is complete.
DriverConnected(t) ==
    /\ drv[t].pc = "attempt"
    /\ ~drv[t].cancel
    /\ ~connected
    /\ ~Disconnecting
    /\ ~left_pending
    /\ connected' = TRUE
    /\ st' = "idle"
    /\ humans' \in BOOLEAN
    /\ voice_client' = TRUE
    /\ IF drv[t].nc \/ drv[t].song # NoSong
       THEN /\ drv' = [drv EXCEPT ![t].pc = "resuming", ![t].hv = TRUE]
            /\ UNCHANGED <<reconnect_attempts, reconnect_task, inactivity_task, mon>>
       ELSE DriverSucceeded(t)
    /\ UNCHANGED <<now, left_pending, sessionVars, queue, recent_songs,
                   command_channel, callVars, nevents>>

\* voice.py 221-253: the song is extracted again, played and recorded
DriverResumed(t) ==
    /\ drv[t].pc = "resuming"
    /\ ~drv[t].cancel
    /\ IF drv[t].song = NoSong
       THEN /\ DriverSucceeded(t)
            /\ UNCHANGED <<st, sessionVars>>
       ELSE /\ drv[t].hv
            /\ connected
            /\ st = "idle"
            /\ st' = "playing"
            /\ update_song(extract_song_info(drv[t].song.id))
            /\ IF drv[t].nc
               THEN /\ drv' = [drv EXCEPT ![t].pc = "finishing"]
                    /\ UNCHANGED <<reconnect_attempts, reconnect_task,
                                   inactivity_task, mon>>
               ELSE DriverSucceeded(t)
    /\ UNCHANGED <<now, connected, left_pending, humans, voice_client, queue,
                   recent_songs, command_channel, callVars, nevents>>

\* voice.py 212-236 raised: the notice, extract_song_info, create_player or
\* voice_client.play (not connected, or already playing)
DriverResumeFailed(t) ==
    /\ drv[t].pc = "resuming"
    /\ ~drv[t].cancel
    /\ DriverAttemptFailed(t)
    /\ UNCHANGED <<now, transportVars, queue, recent_songs, command_channel,
                   inactivity_task, mon, callVars, nevents>>

\* voice.py 246-262: the "resumed" notice is out
DriverFinished(t) ==
    /\ drv[t].pc = "finishing"
    /\ ~drv[t].cancel
    /\ DriverSucceeded(t)
    /\ UNCHANGED <<now, transportVars, voice_client, sessionVars, queue, recent_songs,
                   command_channel, callVars, nevents>>

\* voice.py 246-253 raised inside the inner try
DriverFinishFailed(t) ==
    /\ drv[t].pc = "finishing"
    /\ ~drv[t].cancel
    /\ DriverAttemptFailed(t)
    /\ UNCHANGED <<now, transportVars, queue, recent_songs, command_channel,
                   inactivity_task, mon, callVars, nevents>>

\* voice.py 278-293: the terminal notice is out (or raised: 289-290)
DriverNotified(t) ==
    /\ drv[t].pc = "notify"
    /\ ~drv[t].cancel
    /\ DriverReturn(t)
    /\ UNCHANGED <<now, transportVars, voice_client, sessionVars, queue, recent_songs,
                   command_channel, reconnect_attempts, inactivity_task, mon,
                   callVars, nevents>>

(***************************************************************************)
(* disconnect (voice.py 469-488)                                           *)
(***************************************************************************)

\* voice.py 471-473: voice_client.disconnect() of nextcord stops the player
\* (its after callback schedules _handle_song_end), leaves the channel, and
\* the gateway then notifies the leave
LibraryDisconnect ==
    /\ st # "idle" => Len(song_end_calls) < MaxPending
    /\ connected' = FALSE
    /\ st' = "idle"
    /\ left_pending' = TRUE
    /\ song_end_calls' =
          IF st # "idle"
          THEN Append(song_end_calls, EndCall(FALSE, current_song.id))
          ELSE song_end_calls
    /\ play' = StalePlay(play)
    /\ hse' = StaleHse(hse)

\* voice.py 480-483: cancel the inactivity checker
Disconnect_mon == CancelTask(mon, inactivity_task)

\* voice.py 485-488: cancel the reconnection task
Disconnect_drv ==
    IF reconnect_task > 0 THEN CancelTask(drv, reconnect_task) ELSE drv

Disconnect_reconnect_task == IF reconnect_task > 0 THEN 0 ELSE reconnect_task

\* voice.py 475-478: the clean-up after the handle is disconnected
DisconnectCleanup ==
    /\ clear_song
    /\ voice_client' = FALSE
    /\ queue' = <<>>
    /\ drv' = Disconnect_drv
    /\ reconnect_task' = Disconnect_reconnect_task

(***************************************************************************)
(* _check_inactivity (voice.py 104-127).  Positions of a task:             *)
(*   new    created, first step not yet run                                *)
(*   sleep  in asyncio.sleep(300)                                          *)
(*   disc   in voice_client.disconnect(), called through self.disconnect   *)
(***************************************************************************)

MonitorStart(m) ==
    /\ mon[m].pc = "new"
    /\ ~mon[m].cancel
    /\ mon' = [mon EXCEPT ![m].pc = "sleep"]
    /\ UNCHANGED <<now, transportVars, voice_client, sessionVars, queue, recent_songs,
                   command_channel, reconnect_attempts, reconnect_task,
                   inactivity_task, drv, callVars, nevents>>

\* cancelled: before the first step nothing runs; afterwards 122-127
MonitorCancelled(m) ==
    /\ mon[m].pc # "free"
    /\ mon[m].cancel
    /\ mon' = [mon EXCEPT ![m] = FreeMon]
    /\ inactivity_task' =
          IF mon[m].pc = "new"
          THEN (IF inactivity_task = m THEN -1 ELSE inactivity_task)
          ELSE 0
    /\ UNCHANGED <<now, transportVars, voice_client, sessionVars, queue, recent_songs,
                   command_channel, reconnect_attempts, reconnect_task, drv,
                   callVars, nevents>>

\* the test of 114-119 without the count of human members (116-119)
MonitorInactiveIgnoresMembers == st = "idle"

\* voice.py 114-119: the test that decides to disconnect
MonitorInactive == st = "idle" /\ ~humans

\* voice.py 108-127: one periodic check
MonitorCheck(m) ==
    /\ mon[m].pc = "sleep"
    /\ ~mon[m].cancel
    /\ IF ~(voice_client /\ connected)
       THEN /\ mon' = [mon EXCEPT ![m] = FreeMon]
            /\ inactivity_task' = 0
            /\ UNCHANGED <<transportVars, drv, play, hse, song_end_calls>>
       ELSE IF MonitorInactive
            THEN /\ LibraryDisconnect
                 /\ drv' = StaleDrv(drv)
                 /\ mon' = [mon EXCEPT ![m].pc = "disc"]
                 /\ UNCHANGED <<humans, inactivity_task>>
            ELSE UNCHANGED <<transportVars, drv, mon, inactivity_task,
                             play, hse, song_end_calls>>
    /\ UNCHANGED <<now, voice_client, sessionVars, queue, recent_songs,
                   command_channel, reconnect_attempts, reconnect_task,
                   leave_pc, nevents>>

\* voice.py 475-488, then 121-127: the handle is disconnected, disconnect()
\* cleans up, the loop breaks and the finally clause pops the registry entry
MonitorDisconnected(m) ==
    /\ mon[m].pc = "disc"
    /\ ~mon[m].cancel
    /\ DisconnectCleanup
    /\ mon' = [Disconnect_mon EXCEPT ![m] = FreeMon]
    /\ inactivity_task' = 0
    /\ UNCHANGED <<now, transportVars, recent_songs, command_channel,
                   reconnect_attempts, callVars, nevents>>

(***************************************************************************)
(* disconnect() called by the leave command (navigation_commands.py        *)
(* 190-214) and by the bot's on_voice_state_update when no human is in the *)
(* channel (bot.py 76-89)                                                  *)
(***************************************************************************)

\* voice.py 471-488 up to the first suspension
DisconnectCall ==
    /\ leave_pc = "idle"
    /\ IF voice_client /\ connected
       THEN /\ LibraryDisconnect
            /\ drv' = StaleDrv(drv)
            /\ leave_pc' = "disc"
            /\ UNCHANGED <<humans, voice_client, sessionVars, queue, reconnect_task,
                           inactivity_task, mon>>
       ELSE /\ DisconnectCleanup
            /\ mon' = Disconnect_mon
            /\ inactivity_task' = 0
            /\ UNCHANGED <<transportVars, callVars>>
    /\ UNCHANGED <<now, recent_songs, command_channel, reconnect_attempts>>

\* navigation_commands.py 194-206
LeaveCommand ==
    /\ Event
    /\ connected \/ Disconnecting
    /\ DisconnectCall

\* bot.py 76-89: a voice state update of some member arrives while the bot's
\* channel holds no human
EmptyChannelLeave ==
    /\ Event
    /\ connected \/ Disconnecting
    /\ ~humans
    /\ DisconnectCall

\* voice.py 475-488 after voice_client.disconnect() returned
DisconnectDone ==
    /\ leave_pc = "disc"
    /\ leave_pc' = "idle"
    /\ DisconnectCleanup
    /\ mon' = Disconnect_mon
    /\ inactivity_task' = 0
    /\ UNCHANGED <<now, transportVars, recent_songs, command_channel,
                   reconnect_attempts, play, hse, song_end_calls, nevents>>

(***************************************************************************)
(* Events of the transport                                                 *)
(***************************************************************************)

\* the bot is dropped from its channel; voice.py 129-148 runs on the notification
ConnectionLost ==
    /\ connected
    /\ Event
    /\ connected' = FALSE
    /\ OnVoiceStateUpdateLeft
    /\ UNCHANGED <<now, st, left_pending, humans, voice_client, sessionVars, queue,
                   recent_songs, command_channel, reconnect_attempts,
                   inactivity_task, mon, song_end_calls, leave_pc>>

\* the notification of a leave the bot asked for; voice.py 129-148 runs on it
LeaveNotified ==
    /\ left_pending
    /\ ~Disconnecting
    /\ left_pending' = FALSE
    /\ OnVoiceStateUpdateLeft
    /\ UNCHANGED <<now, connected, st, humans, voice_client, sessionVars, queue,
                   recent_songs, command_channel, reconnect_attempts,
                   inactivity_task, mon, song_end_calls, leave_pc, nevents>>

\* a member joins or leaves the bot's channel
HumansChange ==
    /\ connected
    /\ Event
    /\ humans' = ~humans
    /\ UNCHANGED <<now, connected, st, left_pending, voice_client, sessionVars, queue,
                   recent_songs, command_channel, taskVars, callVars>>

\* the player ends the track (had_error: with a playback error); its after
\* callback schedules _handle_song_end (voice.py 329-335, 433-439, 232-235)
TrackEnd(had_error) ==
    /\ Event
    /\ st \in {"playing", "paused"}
    /\ had_error \/ st = "playing"
    /\ Len(song_end_calls) < MaxPending
    /\ st' = "idle"
    /\ song_end_calls' = Append(song_end_calls, EndCall(had_error, current_song.id))
    /\ UNCHANGED <<now, connected, left_pending, humans, voice_client, sessionVars,
                   queue, recent_songs, command_channel, taskVars, play, hse,
                   leave_pc>>

(***************************************************************************)
(* Commands on guild.voice_client                                          *)
(***************************************************************************)

\* the stop command without clear_song (navigation_commands.py 164)
StopCommandKeepsSong ==
    /\ Event
    /\ connected
    /\ st # "idle" => Len(song_end_calls) < MaxPending
    /\ st' = "idle"
    /\ song_end_calls' =
          IF st # "idle"
          THEN Append(song_end_calls, EndCall(FALSE, current_song.id))
          ELSE song_end_calls
    /\ queue' = <<>>
    /\ UNCHANGED <<now, connected, left_pending, humans, voice_client, sessionVars,
                   recent_songs, command_channel, taskVars, play, hse, leave_pc>>

\* navigation_commands.py 139-167: voice_client.stop() ends the player, whose
\* after callback schedules _handle_song_end; the queue and the session are
\* cleared
StopCommand ==
    /\ Event
    /\ connected
    /\ st # "idle" => Len(song_end_calls) < MaxPending
    /\ st' = "idle"
    /\ song_end_calls' =
          IF st # "idle"
          THEN Append(song_end_calls, EndCall(FALSE, current_song.id))
          ELSE song_end_calls
    /\ queue' = <<>>
    /\ clear_song
    /\ UNCHANGED <<now, connected, left_pending, humans, voice_client,
                   recent_songs, command_channel, taskVars, play, hse, leave_pc>>

\* skip that discards the entries up to and with the target
SkipCommandPastTarget(position) ==
    /\ Event
    /\ IF /\ ~processing
          /\ connected
          /\ st # "idle"
          /\ position >= 1
          /\ position <= Len(queue)
       THEN /\ Len(song_end_calls) < MaxPending
            /\ st' = "idle"
            /\ song_end_calls' = Append(song_end_calls, EndCall(FALSE, current_song.id))
            /\ queue' = SubSeq(queue, position + 1, Len(queue))
       ELSE UNCHANGED <<st, song_end_calls, queue>>
    /\ UNCHANGED <<now, connected, left_pending, humans, voice_client, sessionVars,
                   recent_songs, command_channel, taskVars, play, hse, leave_pc>>

\* navigation_commands.py 36-133, /skip with a position: declined while the
\* guild is processing (49), without a connection (52-62), without a player
\* (64-73), with an empty queue (91-100) or a position out of range (102-111);
\* else voice_client.stop() ends the player, whose after callback schedules
\* _handle_song_end, and position - 1 entries are popped (117-122)
SkipCommand(position) ==
    /\ Event
    /\ IF /\ ~processing
          /\ connected
          /\ st # "idle"
          /\ position >= 1
          /\ position <= Len(queue)
       THEN /\ Len(song_end_calls) < MaxPending
            /\ st' = "idle"
            /\ song_end_calls' = Append(song_end_calls, EndCall(FALSE, current_song.id))
            /\ queue' = SubSeq(queue, position, Len(queue))
       ELSE UNCHANGED <<st, song_end_calls, queue>>
    /\ UNCHANGED <<now, connected, left_pending, humans, voice_client, sessionVars,
                   recent_songs, command_channel, taskVars, play, hse, leave_pc>>

\* navigation_commands.py 79-88, /skip without a position: the player is
\* stopped, the queue is left alone
SkipCurrent ==
    /\ Event
    /\ IF ~processing /\ connected /\ st # "idle"
       THEN /\ Len(song_end_calls) < MaxPending
            /\ st' = "idle"
            /\ song_end_calls' = Append(song_end_calls, EndCall(FALSE, current_song.id))
       ELSE UNCHANGED <<st, song_end_calls>>
    /\ UNCHANGED <<now, connected, left_pending, humans, voice_client, sessionVars,
                   queue, recent_songs, command_channel, taskVars, play, hse, leave_pc>>

\* playback_commands.py 180-228
PauseCommand ==
    /\ Event
    /\ connected
    /\ st = "playing"
    /\ st' = "paused"
    /\ UNCHANGED <<now, connected, left_pending, humans, voice_client, sessionVars,
                   queue, recent_songs, command_channel, taskVars, callVars>>

\* playback_commands.py 243-291
ResumeCommand ==
    /\ Event
    /\ connected
    /\ st = "paused"
    /\ st' = "playing"
    /\ UNCHANGED <<now, connected, left_pending, humans, voice_client, sessionVars,
                   queue, recent_songs, command_channel, taskVars, callVars>>

(***************************************************************************)
(* _handle_song_end (voice.py 377-467).  Positions of the call:            *)
(*   notify      in the playback error notice (401-409)                    *)
(*   extracting  in extract_song_info and create_player (420-431)          *)
(***************************************************************************)

\* the chain of a call that reaches line 412: the first call of a chain sees
\* the queue
Begun(chain) ==
    IF chain.len0 = None THEN [chain EXCEPT !.len0 = Len(queue)] ELSE chain

\* _handle_song_end that tries the front entry and leaves it in the queue
SongEndNextKeepsEntry(chain) ==
    IF queue = <<>>
    THEN /\ hse' = NoHse
         /\ UNCHANGED queue
    ELSE /\ UNCHANGED queue
         /\ IF ~(voice_client /\ connected)
            THEN hse' = NoHse
            ELSE hse' = [pc |-> "extracting", next |-> Head(queue), hv |-> TRUE,
                         chain |-> Begun(chain)]

\* voice.py 411-418: take the next entry; give up without a usable handle
SongEndNext(chain) ==
    IF queue = <<>>
    THEN /\ hse' = NoHse
         /\ UNCHANGED queue
    ELSE /\ queue' = Tail(queue)
         /\ IF ~(voice_client /\ connected)
            THEN hse' = NoHse
            ELSE hse' = [pc |-> "extracting", next |-> Head(queue), hv |-> TRUE,
                         chain |-> [Begun(chain) EXCEPT !.tries = @ + 1]]

\* voice.py 383-418: a scheduled call starts
SongEndStart ==
    /\ hse.pc = "idle"
    /\ song_end_calls # <<>>
    /\ song_end_calls' = Tail(song_end_calls)
    /\ recent_songs' = RecordRecent(recent_songs, current_song)
    /\ clear_song
    /\ IF Head(song_end_calls).had_error /\ command_channel
       THEN /\ hse' = [NoHse EXCEPT !.pc = "notify",
                                    !.chain = Head(song_end_calls).chain]
            /\ UNCHANGED queue
       ELSE SongEndNext(Head(song_end_calls).chain)
    /\ UNCHANGED <<now, transportVars, voice_client, command_channel, taskVars,
                   play, leave_pc, nevents>>

\* voice.py 411-418 after the error notice
SongEndAfterNotice ==
    /\ hse.pc = "notify"
    /\ SongEndNext(hse.chain)
    /\ UNCHANGED <<now, transportVars, voice_client, sessionVars, recent_songs,
                   command_channel, taskVars, play, song_end_calls, leave_pc,
                   nevents>>

\* voice.py 441-443: the next song is played and recorded
SongEndPlayed ==
    /\ hse.pc = "extracting"
    /\ hse.hv
    /\ connected
    /\ st = "idle"
    /\ st' = "playing"
    /\ update_song(hse.next)
    /\ hse' = NoHse
    /\ UNCHANGED <<now, connected, left_pending, humans, voice_client, queue,
                   recent_songs, command_channel, taskVars, play, song_end_calls,
                   leave_pc, nevents>>

\* voice.py 464-467: starting the next song raised; the handler is scheduled
\* again as create_task(self._handle_song_end(guild_id, True))
SongEndFailed ==
    /\ hse.pc = "extracting"
    /\ song_end_calls' = Append(song_end_calls, ReEntry(hse.chain))
    /\ hse' = NoHse
    /\ UNCHANGED <<now, transportVars, voice_client, sessionVars, queue,
                   recent_songs, command_channel, taskVars, play, leave_pc,
                   nevents>>

(***************************************************************************)
(* play_song (voice.py 295-375) with join_voice_channel (39-80).           *)
(* Positions of the call:                                                  *)
(*   joining     in channel.connect() of join_voice_channel                *)
(*   extracting  in extract_song_info and create_player (324-327)          *)
(***************************************************************************)

\* voice.py 313-324: play_song is called
PlaySongBegins(q) ==
    /\ play.pc = "idle"
    /\ IF ~(voice_client /\ connected)
       THEN /\ play' = [NoPlay EXCEPT !.pc = "joining", !.q = q]
            /\ UNCHANGED command_channel
       ELSE /\ play' = [NoPlay EXCEPT !.pc = "extracting", !.q = q, !.hv = TRUE]
            /\ command_channel' = TRUE
    /\ UNCHANGED <<now, transportVars, voice_client, sessionVars, queue,
                   recent_songs, taskVars, hse, song_end_calls, leave_pc>>

\* playback_commands.py 161: the /play command with a query or a URL that is
\* not a Spotify URL
PlayCall(q) ==
    /\ Event
    /\ PlaySongBegins(q)

\* voice.py 56-69 and 321-324: connected
JoinVoiceChannelOk ==
    /\ play.pc = "joining"
    /\ ~connected
    /\ ~Disconnecting
    /\ ~left_pending
    /\ connected' = TRUE
    /\ st' = "idle"
    /\ humans' = TRUE
    /\ voice_client' = TRUE
    /\ command_channel' = TRUE
    /\ reconnect_attempts' = 0
    /\ StartInactivityChecker
    /\ play' = [play EXCEPT !.pc = "extracting", !.hv = TRUE]
    /\ UNCHANGED <<now, left_pending, sessionVars, queue, recent_songs,
                   reconnect_task, drv, hse, song_end_calls, leave_pc, nevents>>

\* voice.py 70-80 and 317-318: connect raised, play_song returns
JoinVoiceChannelFailed ==
    /\ play.pc = "joining"
    /\ play' = Answered("error")
    /\ UNCHANGED <<now, transportVars, voice_client, sessionVars, queue,
                   recent_songs, command_channel, taskVars, hse, song_end_calls,
                   leave_pc, nevents>>

\* the commands fill queues shorter than MaxQueue and queues at the cap
QueueRoom == Len(queue) < MaxQueue \/ Len(queue) + 1 >= max_queue_size

\* voice.py 339 and 343-348: the position the "added to queue" embed shows,
\* read before add_song is called
position_in_queue == Len(queue) + 1

\* play_song that queues the song twice
PlayQueuedTwice ==
    /\ play.pc = "extracting"
    /\ (play.hv \/ ~connected) => st \in {"playing", "paused"}
    /\ QueueRoom
    /\ queue' = add_song(add_song(queue, extract_song_info(play.q)),
                         extract_song_info(play.q))
    /\ play' = Answered("queued")
    /\ UNCHANGED <<now, transportVars, voice_client, sessionVars, recent_songs,
                   command_channel, taskVars, hse, song_end_calls, leave_pc,
                   nevents>>

\* voice.py 337-351: the handle plays or is paused, the song is queued.  A
\* stale handle reports the player it had: st tells it as long as no later
\* connection exists.
PlayQueued ==
    /\ play.pc = "extracting"
    /\ (play.hv \/ ~connected) => st \in {"playing", "paused"}
    /\ QueueRoom
    /\ queue' = add_song(queue, extract_song_info(play.q))
    /\ play' = Answered("queued")
    /\ UNCHANGED <<now, transportVars, voice_client, sessionVars, recent_songs,
                   command_channel, taskVars, hse, song_end_calls, leave_pc,
                   nevents>>

\* voice.py 353-355: the song is played and recorded
PlayStarted ==
    /\ play.pc = "extracting"
    /\ play.hv
    /\ connected
    /\ st = "idle"
    /\ st' = "playing"
    /\ update_song(extract_song_info(play.q))
    /\ play' = Answered("now_playing")
    /\ UNCHANGED <<now, connected, left_pending, humans, voice_client, queue,
                   recent_songs, command_channel, taskVars, hse, song_end_calls,
                   leave_pc, nevents>>

\* voice.py 366-375: extract_song_info, create_player or voice_client.play raised
PlayFailed ==
    /\ play.pc = "extracting"
    /\ play' = Answered("error")
    /\ UNCHANGED <<now, transportVars, voice_client, sessionVars, queue,
                   recent_songs, command_channel, taskVars, hse, song_end_calls,
                   leave_pc, nevents>>

(***************************************************************************)
(* Part III: QueueManager (utils/queue.py) and the queue commands          *)
(* (commands/queue.py).  The methods are synchronous: a call is one step.  *)
(* A queue is a sequence; the indices passed are Python's, counted from 0. *)
(***************************************************************************)
\* bounds of the model
MaxQueueLen == 3     \* entries of the short queues a behaviour starts with
MaxQueueOps == 2     \* queue operations called in one behaviour

\* positions a user passes to /remove and /move (1-based, any integer)
QPositions == (-1)..(MaxQueueLen + 1)

\* no call made yet
NoCall == [op |-> "none", i |-> 0, j |-> 0, ok |-> FALSE, val |-> NoSong]

\* the queue after n add_song calls: the k-th entry put in is numbered k
Numbered(id, k) == [id |-> id, rev |-> k]
Filled(n) == [k \in 1..n |-> Numbered("X", k)]

\* the queue without its entry at place p (counted from 1)
RemoveAt(q, p) == SubSeq(q, 1, p - 1) \o SubSeq(q, p + 1, Len(q))

\* list.pop(index): a negative index counts from the end; IndexError outside
\* -len..len-1
ListPopOk(q, i) == -Len(q) <= i /\ i < Len(q)
ListPop(q, i) == RemoveAt(q, (IF i < 0 THEN i + Len(q) ELSE i) + 1)
ListItem(q, i) == q[(IF i < 0 THEN i + Len(q) ELSE i) + 1]

\* list.insert(index, x) for 0 <= index <= len
ListInsert(q, i, x) == SubSeq(q, 1, i) \o <<x>> \o SubSeq(q, i + 1, Len(q))

\* queue.py 17-24: what add_song returns
add_song_ok(q) == ~(Len(q) >= max_queue_size)

\* pop_song that takes the entry off the end, as list.pop() does
pop_song_last(q) == IF q = <<>> THEN q ELSE SubSeq(q, 1, Len(q) - 1)

\* queue.py 42-46, pop_song: the value returned and the queue left
pop_song_ret(q) == IF q = <<>> THEN NoSong ELSE Head(q)
pop_song(q) == IF q = <<>> THEN q ELSE Tail(q)

\* queue.py 52-61, remove_song
remove_song_ok(q, i) == ListPopOk(q, i)
remove_song(q, i) == IF ListPopOk(q, i) THEN ListPop(q, i) ELSE q

\* move_song that exchanges the two entries
move_song_swap(q, i, j) ==
    IF 0 <= i /\ i < Len(q) /\ 0 <= j /\ j < Len(q)
    THEN [q EXCEPT ![i + 1] = q[j + 1], ![j + 1] = q[i + 1]]
    ELSE q

\* move_song without the test of line 78
move_song_unchecked(q, i, j) ==
    IF ListPopOk(q, i) /\ 0 <= j /\ j < Len(q)
    THEN ListInsert(ListPop(q, i), j, ListItem(q, i))
    ELSE q

\* queue.py 71-85, move_song
move_song_ok(q, i, j) == 0 <= i /\ i < Len(q) /\ 0 <= j /\ j < Len(q)
move_song(q, i, j) ==
    IF move_song_ok(q, i, j)
    THEN ListInsert(ListPop(q, i), j, ListItem(q, i))
    ELSE q

\* random.shuffle: any order of the same entries
Orders(q) ==
    {r \in [1..Len(q) -> 1..Len(q)] : \A a, b \in 1..Len(q) : a # b => r[a] # r[b]}
shuffle_queue(q) == {[k \in 1..Len(q) |-> q[r[k]]] : r \in Orders(q)}

\* one more queue operation
QueueOp ==
    /\ nqops < MaxQueueOps
    /\ nqops' = nqops + 1

\* add_song(guild_id, song_info, requester), as voice.py 340 calls it
AddSongCall(id) ==
    /\ QueueOp
    /\ queue' = add_song(queue, Numbered(id, qtag + 1))
    /\ qtag' = IF add_song_ok(queue) THEN qtag + 1 ELSE qtag
    /\ qres' = [NoCall EXCEPT !.op = "add", !.ok = add_song_ok(queue)]
    /\ UNCHANGED <<popped, reordered>>

\* pop_song(guild_id), as voice.py 412 calls it
PopSongCall ==
    /\ QueueOp
    /\ queue' = pop_song(queue)
    /\ qres' = [NoCall EXCEPT !.op = "pop", !.ok = (queue # <<>>),
                              !.val = pop_song_ret(queue)]
    /\ popped' = IF queue = <<>> THEN popped ELSE Append(popped, Head(queue).rev)
    /\ UNCHANGED <<qtag, reordered>>

\* commands/queue.py 59-80: /remove position
RemoveCommand(position) ==
    LET index == position - 1
    IN  /\ QueueOp
        /\ Len(queue) <= MaxQueueLen + MaxQueueOps
        /\ queue' = remove_song(queue, index)
        /\ qres' = [NoCall EXCEPT !.op = "remove", !.i = index,
                                  !.ok = remove_song_ok(queue, index)]
        /\ reordered' = TRUE
        /\ UNCHANGED <<qtag, popped>>

\* commands/queue.py 86-113: /move from_position to_position
MoveCommand(from_position, to_position) ==
    LET from_index == from_position - 1
        to_index == to_position - 1
    IN  /\ QueueOp
        /\ Len(queue) <= MaxQueueLen + MaxQueueOps
        /\ queue' = move_song(queue, from_index, to_index)
        /\ qres' = [NoCall EXCEPT !.op = "move", !.i = from_index, !.j = to_index,
                                  !.ok = move_song_ok(queue, from_index, to_index)]
        /\ reordered' = TRUE
        /\ UNCHANGED <<qtag, popped>>

\* commands/queue.py 119-134: /shuffle
ShuffleCommand ==
    /\ QueueOp
    /\ queue # <<>>
    /\ Len(queue) <= MaxQueueLen + MaxQueueOps
    /\ queue' \in shuffle_queue(queue)
    /\ qres' = [NoCall EXCEPT !.op = "shuffle", !.ok = TRUE]
    /\ reordered' = TRUE
    /\ UNCHANGED <<qtag, popped>>

\* commands/queue.py 44-53: /clear
ClearCommand ==
    /\ QueueOp
    /\ queue # <<>>
    /\ queue' = <<>>
    /\ qres' = [NoCall EXCEPT !.op = "clear", !.ok = TRUE]
    /\ UNCHANGED <<qtag, popped, reordered>>

InitManager ==
    /\ connected = FALSE
    /\ st = "idle"
    /\ left_pending = FALSE
    /\ humans = FALSE
    /\ voice_client = FALSE
    /\ current_song = NoSong
    /\ song_start_time = None
    /\ pause_duration = None
    /\ last_pause_time = None
    /\ recent_songs = <<>>
    /\ command_channel = FALSE
    /\ reconnect_attempts = None
    /\ reconnect_task = 0
    /\ inactivity_task = 0
    /\ drv = [t \in Drivers |-> FreeDrv]
    /\ mon = [m \in Monitors |-> FreeMon]
    /\ play = NoPlay
    /\ hse = NoHse
    /\ song_end_calls = <<>>
    /\ leave_pc = "idle"

\* no queue operation called yet
InitQueueCalls ==
    /\ qres = NoCall
    /\ popped = <<>>
    /\ reordered = FALSE
    /\ nqops = 0

InitVoice ==
    /\ InitManager
    /\ queue = <<>>
    /\ qtag = 0
    /\ InitQueueCalls

(***************************************************************************)
(* Specifications                                                          *)
(***************************************************************************)
\* the clock
Tick ==
    /\ Event
    /\ now < MaxTime
    /\ now' = now + 1
    /\ UNCHANGED <<cacheVars, voiceVars, queueVars, sideVars>>

(***************************************************************************)
(* Part IV: the /play command with a Spotify URL (playback_commands.py     *)
(* 95-158) and the _process_spotify_songs task (32-68).                    *)
(* Positions of the command:                                               *)
(*   catalog  in spotify_manager.get_songs_from_url (102)                  *)
(*   ack      in followup.send of the acknowledgment (117)                 *)
(*   first    in voice_manager.play_song for the first song (128)          *)
(* Positions of the task:                                                  *)
(*   yield    created, or in asyncio.sleep(0) (45)                         *)
(*   extract  in extract_song_info (48)                                    *)
(*   sleep    in asyncio.sleep(2) between two batches (58), since the time *)
(*            recorded                                                     *)
(* left counts the songs not handled yet.  One task exists at a time: the  *)
(* command is taken up when the task of an earlier command has ended.      *)
(***************************************************************************)
MaxTracks == 3       \* songs a Spotify link resolves to, at most

\* PlaybackCommands.__init__ (playback_commands.py 14-16); no command in flight
NoSp == [pc |-> "idle", left |-> 0]
NoIng == [pc |-> "idle", left |-> 0, since |-> None]

\* playback_commands.py 58: await asyncio.sleep(2)
batch_delay == 2

\* the frame of a step of the command that makes no call of play_song
SpotifyOnly ==
    UNCHANGED <<now, nevents, cacheVars, voiceVars, queueVars, ing, throttleVars, tenantVars>>

\* playback_commands.py 96-102: the command arrives, the flag is set
SpotifyCall ==
    /\ sp.pc = "idle"
    /\ ing.pc = "idle"
    /\ play.pc = "idle"
    /\ Event
    /\ processing' = TRUE
    /\ sp' = [NoSp EXCEPT !.pc = "catalog"]
    /\ UNCHANGED <<now, cacheVars, voiceVars, queueVars, ing, throttleVars, tenantVars>>

\* playback_commands.py 146-158: get_songs_from_url raised
CatalogRaises ==
    /\ sp.pc = "catalog"
    /\ processing' = FALSE
    /\ sp' = NoSp
    /\ SpotifyOnly

\* playback_commands.py 103-113: no song found
CatalogEmpty ==
    /\ sp.pc = "catalog"
    /\ processing' = FALSE
    /\ sp' = NoSp
    /\ SpotifyOnly

\* playback_commands.py 116-124: n > 1 songs found, the acknowledgment is sent
CatalogReturnsMany(n) ==
    /\ sp.pc = "catalog"
    /\ n > 1
    /\ sp' = [pc |-> "ack", left |-> n]
    /\ UNCHANGED processing
    /\ SpotifyOnly

\* playback_commands.py 127-128: the first song is popped and play_song called
SpotifyPlayFirst(n, q) ==
    /\ PlaySongBegins(q)
    /\ sp' = [pc |-> "first", left |-> n - 1]
    /\ UNCHANGED <<nevents, cacheVars, queueVars, processing, ing, throttleVars, tenantVars>>

\* playback_commands.py 116, 127-128: one song found
CatalogReturnsOne(q) ==
    /\ sp.pc = "catalog"
    /\ SpotifyPlayFirst(1, q)

\* playback_commands.py 117-128: the acknowledgment is sent
SpotifyAcked(q) ==
    /\ sp.pc = "ack"
    /\ SpotifyPlayFirst(sp.left, q)

\* play_song has returned to the command
FirstReturned == sp.pc = "first" /\ play.pc = "idle"

\* playback_commands.py 131-145: the task is created when guild.voice_client
\* exists and songs are left; the command returns
SpotifyAfterFirst ==
    /\ FirstReturned
    /\ sp' = NoSp
    /\ ing' = IF connected /\ sp.left > 0
              THEN [NoIng EXCEPT !.pc = "yield", !.left = sp.left]
              ELSE ing
    /\ UNCHANGED processing
    /\ UNCHANGED <<now, nevents, cacheVars, voiceVars, queueVars, throttleVars,
                   tenantVars>>

\* the frame of a step of the task that leaves the queue alone
IngestOnly ==
    UNCHANGED <<nevents, cacheVars, voiceVars, queueVars, processing, sp,
                throttleVars, tenantVars>>

\* playback_commands.py 45-48: asyncio.sleep(0) is over, extract_song_info is
\* called
IngestYielded ==
    /\ ing.pc = "yield"
    /\ ing' = [ing EXCEPT !.pc = "extract"]
    /\ UNCHANGED now
    /\ IngestOnly

\* the task that gives up at the first song that fails
IngestSongStopsOnFailure(q, ok) ==
    /\ ing.pc = "extract"
    /\ queue' = IF ok THEN add_song(queue, extract_song_info(q)) ELSE queue
    /\ IF ing.left > 1 /\ ok
       THEN /\ ing' = [pc |-> "sleep", left |-> ing.left - 1, since |-> now]
            /\ UNCHANGED processing
       ELSE /\ ing' = NoIng
            /\ processing' = FALSE
    /\ UNCHANGED <<now, nevents, cacheVars, transportVars, voice_client, sessionVars,
                   recent_songs, command_channel, taskVars, callVars, queueVars, sp,
                   throttleVars, tenantVars>>

\* playback_commands.py 48-58 and 65-68: the song is extracted and added (or
\* its extraction raises, 52-53); the task sleeps when songs are left, and
\* after the last one the finally clause clears the flag
IngestSong(q, ok) ==
    /\ ing.pc = "extract"
    /\ queue' = IF ok THEN add_song(queue, extract_song_info(q)) ELSE queue
    /\ IF ing.left > 1
       THEN /\ ing' = [pc |-> "sleep", left |-> ing.left - 1, since |-> now]
            /\ UNCHANGED processing
       ELSE /\ ing' = NoIng
            /\ processing' = FALSE
    /\ UNCHANGED <<now, nevents, cacheVars, transportVars, voice_client, sessionVars,
                   recent_songs, command_channel, taskVars, callVars, queueVars, sp,
                   throttleVars, tenantVars>>

\* the clock while the task sleeps
IngestSleeps ==
    /\ ing.pc = "sleep"
    /\ now < ing.since + batch_delay
    /\ now' = now + 1
    /\ UNCHANGED ing
    /\ IngestOnly

\* playback_commands.py 58 and 36-45: asyncio.sleep(2) is over; the next
\* batch begins with asyncio.sleep(0)
IngestWake ==
    /\ ing.pc = "sleep"
    /\ now >= ing.since + batch_delay
    /\ ing' = [ing EXCEPT !.pc = "yield", !.since = None]
    /\ UNCHANGED now
    /\ IngestOnly

(***************************************************************************)
(* Part V: VoiceManager._respect_rate_limit (voice.py 82-93) and the       *)
(* coroutines that make outbound calls.  A coroutine is the list of its    *)
(* throttle awaits and outbound calls, in the order of its code; whatever  *)
(* else it awaits lets the clock and the other coroutines run between two  *)
(* of them.  The clock of SpecThrottle counts in units of min_api_interval.*)
(***************************************************************************)
min_api_interval == 1

ApiKinds == {"join_voice", "extract_info"}

\* what a coroutine does next: await the throttle under a key, or make the
\* outbound call channel.connect() or extract_song_info
Await(kind) == [op |-> "await", kind |-> kind]
Call(kind) == [op |-> "call", kind |-> kind]

\* play_song (voice.py 311-324) with and without join_voice_channel (54-57),
\* _handle_song_end (422-427: the stored song_info is played, nothing is
\* extracted), _reconnect_to_voice (208, 224) and _process_spotify_songs
\* (playback_commands.py 48)
Coroutines == {"play_song", "play_song_join", "_handle_song_end",
               "_reconnect_to_voice", "_process_spotify_songs"}

Program(co) ==
    CASE co = "play_song" ->
           <<Await("extract_info"), Call("extract_info")>>
      [] co = "play_song_join" ->
           <<Await("extract_info"), Await("join_voice"), Call("join_voice"),
             Call("extract_info")>>
      [] co = "_handle_song_end" ->
           <<Await("extract_info")>>
      [] co = "_reconnect_to_voice" ->
           <<Call("join_voice"), Call("extract_info")>>
      [] co = "_process_spotify_songs" ->
           <<Call("extract_info")>>

NoThr == [co |-> "none", i |-> 0, wake |-> None, awaited |-> {}]

\* the step of coroutine c that is due
Due(c) == Program(thr[c].co)[thr[c].i]
Running(c) == thr[c].co # "none"

\* the coroutine after its step i
Advanced(t) ==
    IF t.i = Len(Program(t.co)) THEN NoThr ELSE [t EXCEPT !.i = @ + 1, !.wake = None]

\* a coroutine starts
CoroutineStart(c, co) ==
    /\ ~Running(c)
    /\ Event
    /\ thr' = [thr EXCEPT ![c] = [NoThr EXCEPT !.co = co, !.i = 1]]
    /\ UNCHANGED <<now, cacheVars, voiceVars, queueVars, ingestVars,
                   last_api_call, last_out, tenantVars>>

\* voice.py 84-93: _respect_rate_limit up to its sleep, or to its end when it
\* does not sleep
ThrottleEnter(c) ==
    LET kind == Due(c).kind
        last_call == last_api_call[kind]
    IN  /\ Running(c)
        /\ Due(c).op = "await"
        /\ thr[c].wake = None
        /\ IF last_call # None /\ now - last_call < min_api_interval
           THEN /\ thr' = [thr EXCEPT ![c].wake = last_call + min_api_interval]
                /\ UNCHANGED last_api_call
           ELSE /\ thr' = [thr EXCEPT ![c] = Advanced([@ EXCEPT !.awaited = @ \cup {kind}])]
                /\ last_api_call' = [last_api_call EXCEPT ![kind] = now]
        /\ UNCHANGED <<now, nevents, cacheVars, voiceVars, queueVars, ingestVars,
                       last_out, tenantVars>>

\* voice.py 90-93: the sleep is over
ThrottleWake(c) ==
    LET kind == Due(c).kind
    IN  /\ Running(c)
        /\ thr[c].wake # None
        /\ now >= thr[c].wake
        /\ thr' = [thr EXCEPT ![c] = Advanced([@ EXCEPT !.awaited = @ \cup {kind}])]
        /\ last_api_call' = [last_api_call EXCEPT ![kind] = now]
        /\ UNCHANGED <<now, nevents, cacheVars, voiceVars, queueVars, ingestVars,
                       last_out, tenantVars>>

\* channel.connect() or extract_song_info is called
OutboundCall(c) ==
    /\ Running(c)
    /\ Due(c).op = "call"
    /\ thr' = [thr EXCEPT ![c] = Advanced(@)]
    /\ last_out' = [last_out EXCEPT ![Due(c).kind] = now]
    /\ UNCHANGED <<now, nevents, cacheVars, voiceVars, queueVars, ingestVars,
                   last_api_call, tenantVars>>

InitThrottle ==
    /\ last_api_call = [k \in ApiKinds |-> None]
    /\ thr = [c \in Callers |-> NoThr]
    /\ last_out = [k \in ApiKinds |-> None]

(***************************************************************************)
(* Part VI: several guilds.  tenants holds the dicts of the three global   *)
(* objects under the names of the source, each a function of guild_id      *)
(* (None, NoSong, <<>> or FALSE where the dict has no entry).  An          *)
(* operation is the whole of its effect on the dicts: a command with the   *)
(* coroutine it runs, a track end with _handle_song_end, a connection loss *)
(* with the first step of the reconnection task; the task's later steps    *)
(* are operations of their own.  The clock stands still.                   *)
(***************************************************************************)
NumGuilds == 2       \* guilds the bot serves
MaxGuildQueue == 2   \* entries the commands put in one guild's queue

Guilds == 1..NumGuilds

\* d[guild_id] = v and d.pop(guild_id, None)
Put(d, g, v) == [d EXCEPT ![g] = v]
Pop(d, g, none) == [d EXCEPT ![g] = none]

\* clear_song that clears the dicts
clear_song_all(T, g) ==
    [T EXCEPT !.current_songs = [h \in Guilds |-> NoSong],
              !.song_start_times = [h \in Guilds |-> None],
              !.pause_durations = [h \in Guilds |-> None],
              !.last_pause_time = [h \in Guilds |-> None]]

\* player.py 165-170, PlayerState.clear_song
clear_song_of(T, g) ==
    [T EXCEPT !.current_songs = Pop(@, g, NoSong),
              !.song_start_times = Pop(@, g, None),
              !.pause_durations = Pop(@, g, None),
              !.last_pause_time = Pop(@, g, None)]

\* player.py 139-153, PlayerState.update_song
update_song_of(T, g, info) ==
    [T EXCEPT !.current_songs = Put(@, g, info),
              !.song_start_times = Put(@, g, now),
              !.pause_durations = Put(@, g, 0),
              !.last_pause_time = Pop(@, g, None)]

\* voice.py 178-185 and 386-393: the guild's recent_songs
record_recent_of(T, g) ==
    [T EXCEPT !.recent_songs = Put(@, g, RecordRecent(@[g], T.current_songs[g]))]

\* voice.py 95-102, _start_inactivity_checker
start_inactivity_checker_of(T, g) ==
    [T EXCEPT !.inactivity_timeouts = Put(@, g, TRUE)]

\* voice.py 469-487, disconnect
disconnect_of(T, g) ==
    LET T1 == clear_song_of(T, g)
    IN  [T1 EXCEPT !.voice_clients = Pop(@, g, FALSE),
                   !.queues = Put(@, g, <<>>),
                   !.inactivity_timeouts = Pop(@, g, FALSE),
                   !.reconnect_tasks = Pop(@, g, None)]

\* an operation on guild g that leaves the dicts as T
TenantOp(g, T) ==
    /\ tenants' = T
    /\ op_guild' = g
    /\ UNCHANGED <<now, cacheVars, voiceVars, queueVars, ingestVars, throttleVars>>

\* the guild is in a channel and a track plays
Playing(g) == tenants.voice_clients[g] /\ tenants.current_songs[g] # NoSong

\* voice.py 56-69: /play on a guild without a connection joins
TenantJoin(g) ==
    /\ ~tenants.voice_clients[g]
    /\ tenants.reconnect_tasks[g] = None
    /\ Event
    /\ TenantOp(g, start_inactivity_checker_of(
                      [tenants EXCEPT !.voice_clients = Put(@, g, TRUE),
                                      !.reconnect_attempts = Put(@, g, 0)], g))

\* voice.py 324-355: /play queues the track or starts it
TenantPlay(g, q) ==
    /\ tenants.voice_clients[g]
    /\ Event
    /\ IF Playing(g)
       THEN /\ Len(tenants.queues[g]) < MaxGuildQueue
            /\ TenantOp(g, [tenants EXCEPT
                                !.queues = Put(@, g, add_song(@[g], extract_song_info(q)))])
       ELSE TenantOp(g, update_song_of(tenants, g, extract_song_info(q)))

\* voice.py 364-375: extract_song_info or create_player raised
TenantPlayFailed(g) ==
    /\ tenants.voice_clients[g]
    /\ Event
    /\ TenantOp(g, tenants)

\* queue.py 52-61, 71-85, 87-89, 48-50: /remove, /move, /shuffle, /clear
TenantRemove(g, i) ==
    /\ Event
    /\ TenantOp(g, [tenants EXCEPT !.queues = Put(@, g, remove_song(@[g], i))])

TenantMove(g, i, j) ==
    /\ Event
    /\ TenantOp(g, [tenants EXCEPT !.queues = Put(@, g, move_song(@[g], i, j))])

TenantShuffle(g) ==
    /\ Event
    /\ \E r \in shuffle_queue(tenants.queues[g]) :
          TenantOp(g, [tenants EXCEPT !.queues = Put(@, g, r)])

TenantClear(g) ==
    /\ Event
    /\ TenantOp(g, [tenants EXCEPT !.queues = Put(@, g, <<>>)])

\* voice.py 377-443: the track ends; the finished track is recorded, the
\* Session cleared, the next entry popped and started (ok) or not
TenantSongEnd(g, ok) ==
    /\ Playing(g)
    /\ Event
    /\ LET T1 == clear_song_of(record_recent_of(tenants, g), g)
           T2 == [T1 EXCEPT !.queues = Put(@, g, pop_song(@[g]))]
           next == pop_song_ret(tenants.queues[g])
       IN  TenantOp(g, IF next # NoSong /\ ok THEN update_song_of(T2, g, next) ELSE T2)

\* navigation_commands.py /leave, voice.py 469-487
TenantLeave(g) ==
    /\ tenants.voice_clients[g]
    /\ Event
    /\ TenantOp(g, disconnect_of(tenants, g))

\* voice.py 129-197: the connection is lost while a track plays; the task is
\* created and takes its first step (the track is recorded, attempts read)
TenantConnectionLost(g) ==
    /\ Playing(g)
    /\ tenants.reconnect_tasks[g] = None
    /\ Event
    /\ LET a == IF tenants.reconnect_attempts[g] = None THEN 0
                ELSE tenants.reconnect_attempts[g]
       IN  TenantOp(g, [record_recent_of(tenants, g) EXCEPT
                            !.reconnect_tasks = Put(@, g, a)])

\* voice.py 262-265: an attempt of the task failed
TenantReconnectFailed(g) ==
    /\ tenants.reconnect_tasks[g] # None
    /\ tenants.reconnect_tasks[g] < max_reconnect_attempts
    /\ UNCHANGED nevents
    /\ TenantOp(g, [tenants EXCEPT
                        !.reconnect_tasks = Put(@, g, @[g] + 1),
                        !.reconnect_attempts = Put(@, g, tenants.reconnect_tasks[g] + 1)])

\* voice.py 208-260 and 291-293: an attempt succeeded, the track is resumed
TenantReconnected(g) ==
    /\ tenants.reconnect_tasks[g] # None
    /\ tenants.reconnect_tasks[g] < max_reconnect_attempts
    /\ UNCHANGED nevents
    /\ LET T1 == update_song_of(tenants, g, tenants.current_songs[g])
           T2 == [T1 EXCEPT !.voice_clients = Put(@, g, TRUE),
                            !.reconnect_attempts = Put(@, g, 0),
                            !.reconnect_tasks = Pop(@, g, None)]
       IN  TenantOp(g, start_inactivity_checker_of(T2, g))

\* voice.py 268-293: the attempts are exhausted
TenantExhausted(g) ==
    /\ tenants.reconnect_tasks[g] # None
    /\ tenants.reconnect_tasks[g] >= max_reconnect_attempts
    /\ UNCHANGED nevents
    /\ LET T1 == clear_song_of(tenants, g)
       IN  TenantOp(g, [T1 EXCEPT !.voice_clients = Pop(@, g, FALSE),
                                  !.reconnect_tasks = Pop(@, g, None)])

\* a guild the bot has not served yet, and a guild where "X" plays with one
\* entry queued and one track played before; at first the guilds are all of
\* one kind
IdleGuild ==
    [queue |-> <<>>, song |-> NoSong, handle |-> FALSE, recent |-> <<>>,
     attempts |-> None]
BusyGuild ==
    [queue |-> <<[id |-> "Y", rev |-> 0]>>, song |-> [id |-> "X", rev |-> 0],
     handle |-> TRUE,
     recent |-> <<"Y">>, attempts |-> 0]

InitTenants ==
    /\ op_guild = 0
    /\ \E G \in {[g \in Guilds |-> IdleGuild], [g \in Guilds |-> BusyGuild]} :
          tenants =
            [queues |-> [g \in Guilds |-> G[g].queue],
             current_songs |-> [g \in Guilds |-> G[g].song],
             song_start_times |-> [g \in Guilds |-> IF G[g].handle THEN 0 ELSE None],
             pause_durations |-> [g \in Guilds |-> IF G[g].handle THEN 0 ELSE None],
             last_pause_time |-> [g \in Guilds |-> None],
             voice_clients |-> [g \in Guilds |-> G[g].handle],
             recent_songs |-> [g \in Guilds |-> G[g].recent],
             reconnect_attempts |-> [g \in Guilds |-> G[g].attempts],
             reconnect_tasks |-> [g \in Guilds |-> None],
             inactivity_timeouts |-> [g \in Guilds |-> G[g].handle]]

\* the bot before it serves a guild
NoTenants ==
    /\ op_guild = 0
    /\ tenants = <<>>

InitSide ==
    /\ processing = FALSE
    /\ sp = NoSp
    /\ ing = NoIng
    /\ InitThrottle

InitCache ==
    /\ cache = [k \in Keys |-> NoEntry]
    /\ lock = 0
    /\ hits = 0
    /\ misses = 0
    /\ last_cleanup = 0
    /\ cpc = [c \in Callers |-> "idle"]
    /\ ckey = [c \in Callers |-> 1]
    /\ outcome = [c \in Callers |-> "none"]
    /\ ncalls = 0

Init ==
    /\ now = 0
    /\ nevents = 0
    /\ InitCache
    /\ InitSide
    /\ NoTenants
    /\ InitVoice

NextCache ==
    \/ /\ \/ \E c \in Callers, k \in Keys : GetCall(c, k)
          \/ \E c \in Callers : AcquireLock(c)
          \/ \E c \in Callers : ComputeReturn(c)
          \/ \E c \in Callers : ComputeRaise(c)
          \/ CleanupExpired
       /\ UNCHANGED <<voiceVars, nevents, queueVars, sideVars>>
    \/ Tick

SpecCache == Init /\ [][NextCache]_vars

\* SpecExtract: the callers are calls of extract_song_info
NextExtract ==
    /\ \/ \E c \in Callers, k \in Keys : GetCall(c, k)
       \/ \E c \in Callers : AcquireLock(c)
       \/ \E c \in Callers : ComputeReturn(c)
       \/ \E c \in Callers : ExtractFallsBack(c)
       \/ \E c \in Callers : DirectReturn(c)
       \/ \E c \in Callers : DirectRaise(c)
    /\ UNCHANGED <<voiceVars, nevents, queueVars, sideVars>>

SpecExtract == Init /\ [][NextExtract]_vars

\* asyncio runs the callbacks that are ready before it polls for new events:
\* the first step of a task made by create_task (voice.py 100-102, 165-167) and
\* the CancelledError of a task cancelled by Task.cancel() (98, 162, 482, 487)
\* run before the next event, command, timer or reply is handled.
Quiet ==
    /\ \A t \in Drivers : drv[t].pc # "new" /\ ~drv[t].cancel
    /\ \A m \in Monitors : mon[m].pc # "new" /\ ~mon[m].cancel

NextVoice ==
    \/ /\ \/ \E t \in Drivers : DriverStart(t)
          \/ \E t \in Drivers : DriverCancelled(t)
          \/ \E m \in Monitors : MonitorStart(m)
          \/ \E m \in Monitors : MonitorCancelled(m)
       /\ UNCHANGED <<cacheVars, queueVars, sideVars>>
    \/ /\ Quiet
       /\ \/ \E t \in Drivers : DriverConnectFailed(t)
          \/ \E t \in Drivers : DriverGuildGone(t)
          \/ \E t \in Drivers : DriverConnected(t)
          \/ \E t \in Drivers : DriverResumed(t)
          \/ \E t \in Drivers : DriverResumeFailed(t)
          \/ \E t \in Drivers : DriverFinished(t)
          \/ \E t \in Drivers : DriverFinishFailed(t)
          \/ \E t \in Drivers : DriverNotified(t)
          \/ \E m \in Monitors : MonitorCheck(m)
          \/ \E m \in Monitors : MonitorDisconnected(m)
          \/ LeaveCommand
          \/ EmptyChannelLeave
          \/ DisconnectDone
          \/ ConnectionLost
          \/ LeaveNotified
          \/ HumansChange
          \/ \E e \in BOOLEAN : TrackEnd(e)
          \/ PauseCommand
          \/ ResumeCommand
          \/ StopCommand
          \/ SongEndStart
          \/ SongEndAfterNotice
          \/ SongEndPlayed
          \/ SongEndFailed
          \/ \E q \in Songs : PlayCall(q)
          \/ JoinVoiceChannelOk
          \/ JoinVoiceChannelFailed
          \/ PlayQueued
          \/ PlayStarted
          \/ PlayFailed
       /\ UNCHANGED <<cacheVars, queueVars, sideVars>>
    \/ Tick

SpecVoice == Init /\ [][NextVoice]_vars

\* SpecThrottle: coroutines of the kinds of Part V, started at any time
NextThrottle ==
    \/ \E c \in Callers, co \in Coroutines : CoroutineStart(c, co)
    \/ \E c \in Callers : ThrottleEnter(c)
    \/ \E c \in Callers : ThrottleWake(c)
    \/ \E c \in Callers : OutboundCall(c)
    \/ Tick

SpecThrottle == Init /\ [][NextThrottle]_vars

\* SpecTenants: operations on the guilds, in any order
NextTenants ==
    \E g \in Guilds :
        \/ TenantJoin(g)
        \/ \E q \in Songs : TenantPlay(g, q)
        \/ TenantPlayFailed(g)
        \/ \E i \in 0..1 : TenantRemove(g, i)
        \/ TenantMove(g, 0, 1)
        \/ TenantMove(g, 1, 0)
        \/ TenantShuffle(g)
        \/ TenantClear(g)
        \/ \E ok \in BOOLEAN : TenantSongEnd(g, ok)
        \/ TenantLeave(g)
        \/ TenantConnectionLost(g)
        \/ TenantReconnectFailed(g)
        \/ TenantReconnected(g)
        \/ TenantExhausted(g)

InitManyGuilds ==
    /\ now = 0
    /\ nevents = 0
    /\ InitCache
    /\ InitVoice
    /\ InitSide
    /\ InitTenants

SpecTenants == InitManyGuilds /\ [][NextTenants]_vars

\* SpecIngest: /play commands with a Spotify URL on a tenant that has no
\* connection at first; every track of the links resolves to "X".  play_song returns to the command in the step in which
\* it ends (the command goes on without a suspension).
PlaySongSteps ==
    \/ JoinVoiceChannelOk
    \/ JoinVoiceChannelFailed
    \/ PlayQueued
    \/ PlayStarted
    \/ PlayFailed

IngestSteps ==
    \/ IngestYielded
    \/ \E ok \in BOOLEAN : IngestSong("X", ok)
    \/ IngestSleeps
    \/ IngestWake

NextIngest ==
    \/ SpotifyAfterFirst
    \/ /\ ~FirstReturned
       /\ \/ SpotifyCall
          \/ CatalogRaises
          \/ CatalogEmpty
          \/ \E n \in 2..MaxTracks : CatalogReturnsMany(n)
          \/ CatalogReturnsOne("X")
          \/ SpotifyAcked("X")
          \/ PlaySongSteps /\ UNCHANGED <<cacheVars, queueVars, sideVars>>
          \/ \E m \in Monitors : MonitorStart(m) /\ UNCHANGED <<cacheVars, queueVars, sideVars>>
          \/ IngestSteps

SpecIngest == Init /\ [][NextIngest]_vars

\* the catalog, the transport and the extraction answer; asyncio runs the
\* coroutines that are ready
FairIngest ==
    /\ SpecIngest
    /\ WF_vars(SpotifyAfterFirst)
    /\ WF_vars(~FirstReturned /\ (CatalogRaises \/ CatalogEmpty
                                  \/ (\E n \in 2..MaxTracks : CatalogReturnsMany(n))
                                  \/ CatalogReturnsOne("X")))
    /\ WF_vars(~FirstReturned /\ SpotifyAcked("X"))
    /\ WF_vars(~FirstReturned /\ PlaySongSteps /\ UNCHANGED <<cacheVars, queueVars, sideVars>>)
    /\ WF_vars(~FirstReturned /\ IngestSteps)

\* SpecQueue: the queue operations called one after the other on a queue that
\* holds the entries of n earlier add_song calls, n small or at the cap
QueueLens == (0..MaxQueueLen) \cup {max_queue_size - 1, max_queue_size}

InitQueue ==
    /\ now = 0
    /\ nevents = 0
    /\ InitCache
    /\ InitSide
    /\ NoTenants
    /\ InitManager
    /\ InitQueueCalls
    /\ \E n \in QueueLens : queue = Filled(n) /\ qtag = n

NextQueue ==
    /\ \/ \E id \in Songs : AddSongCall(id)
       \/ PopSongCall
       \/ \E p \in QPositions : RemoveCommand(p)
       \/ \E p, r \in QPositions : MoveCommand(p, r)
       \/ ShuffleCommand
       \/ ClearCommand
    /\ UNCHANGED <<now, nevents, cacheVars, transportVars, voice_client, sessionVars,
                   recent_songs, command_channel, taskVars, callVars, sideVars>>

SpecQueue == InitQueue /\ [][NextQueue]_vars

\* a tenant in a voice channel whose play_song started "X" at time 0 (and
\* paused it or not); its queue, its recent_songs and the answer of the last
\* play_song are left to the specification
InitConnected ==
    /\ now = 0
    /\ nevents = 0
    /\ InitCache
    /\ InitSide
    /\ NoTenants
    /\ InitQueueCalls
    /\ qtag = 0
    /\ connected = TRUE
    /\ st \in {"playing", "paused"}
    /\ left_pending = FALSE
    /\ humans = TRUE
    /\ voice_client = TRUE
    /\ current_song = [id |-> "X", rev |-> 0]
    /\ song_start_time = 0
    /\ pause_duration = 0
    /\ last_pause_time = None
    /\ command_channel = TRUE
    /\ reconnect_attempts = 0
    /\ reconnect_task = 0
    /\ inactivity_task = 1
    /\ drv = [t \in Drivers |-> FreeDrv]
    /\ mon = [m \in Monitors |->
                IF m = 1 THEN [FreeMon EXCEPT !.pc = "sleep"] ELSE FreeMon]
    /\ hse = NoHse
    /\ song_end_calls = <<>>
    /\ leave_pc = "idle"

\* SpecPlay: play_song and the session of a tenant that stays connected.  The
\* start is the state after play_song started "X" at time 0 (and paused it or
\* not) and n more calls queued "X" at time 0, n none or at the cap.  Starting
\* the next song of the queue does not raise here (SpecVoice has that case).
PlayLens == {0, max_queue_size - 1, max_queue_size}
Queued(n) == [k \in 1..n |-> [id |-> "X", rev |-> 0]]

InitPlay ==
    /\ InitConnected
    /\ recent_songs = <<>>
    /\ \E n \in PlayLens :
          /\ queue = Queued(n)
          /\ play = Answered(IF n = 0 THEN "now_playing" ELSE "queued")

NextPlay ==
    \/ /\ \/ \E q \in Songs : PlayCall(q)
          \/ PlayQueued
          \/ PlayStarted
          \/ PlayFailed
          \/ PauseCommand
          \/ ResumeCommand
          \/ \E e \in BOOLEAN : TrackEnd(e)
          \/ SongEndStart
          \/ SongEndAfterNotice
          \/ SongEndPlayed
       /\ UNCHANGED <<cacheVars, queueVars, sideVars>>
    \/ Tick

SpecPlay == InitPlay /\ [][NextPlay]_vars

\* SpecAdvance: end-of-track handling with failing starts on a tenant that
\* stays connected.  The start is that of SpecPlay with a short queue.
InitAdvance ==
    /\ InitConnected
    /\ recent_songs = <<>>
    /\ \E n \in 0..MaxQueueLen :
          /\ queue = Queued(n)
          /\ play = Answered(IF n = 0 THEN "now_playing" ELSE "queued")

NextAdvance ==
    \/ /\ \/ \E q \in Songs : PlayCall(q)
          \/ PlayQueued
          \/ PlayStarted
          \/ PlayFailed
          \/ \E e \in BOOLEAN : TrackEnd(e)
          \/ SongEndStart
          \/ SongEndAfterNotice
          \/ SongEndPlayed
          \/ SongEndFailed
       /\ UNCHANGED <<cacheVars, queueVars, sideVars>>
    \/ Tick

SpecAdvance == InitAdvance /\ [][NextAdvance]_vars

\* the event loop runs a scheduled call, and an awaited send, extraction or
\* player creation returns or raises
FairAdvance ==
    /\ SpecAdvance
    /\ WF_vars(SongEndStart /\ UNCHANGED <<cacheVars, queueVars, sideVars>>)
    /\ WF_vars(SongEndAfterNotice /\ UNCHANGED <<cacheVars, queueVars, sideVars>>)
    /\ WF_vars((SongEndPlayed \/ SongEndFailed) /\ UNCHANGED <<cacheVars, queueVars, sideVars>>)

\* SpecHistory: the voice manager of a tenant that is connected and has
\* recorded n tracks before, n one below the limit of recent_songs: the next
\* recording fills the list, the one after drops the oldest entry
RecentLens == {max_recent_songs - 1}
Recorded(n) == SubSeq(<<"R1", "R2", "R3", "R4", "R5">>, 1, n)

InitHistory ==
    /\ InitConnected
    /\ queue = <<>>
    /\ play = Answered("now_playing")
    /\ \E n \in RecentLens : recent_songs = Recorded(n)

\* the actions that record a track, and those that start and end tracks and
\* connections: no leave command, no inactivity check, no pause
NextHistory ==
    \/ /\ \/ \E t \in Drivers : DriverStart(t)
          \/ \E t \in Drivers : DriverCancelled(t)
          \/ \E m \in Monitors : MonitorStart(m)
          \/ \E m \in Monitors : MonitorCancelled(m)
       /\ UNCHANGED <<cacheVars, queueVars, sideVars>>
    \/ /\ Quiet
       /\ \/ \E t \in Drivers : DriverConnectFailed(t)
          \/ \E t \in Drivers : DriverConnected(t)
          \/ \E t \in Drivers : DriverResumed(t)
          \/ \E t \in Drivers : DriverResumeFailed(t)
          \/ \E t \in Drivers : DriverFinished(t)
          \/ \E t \in Drivers : DriverFinishFailed(t)
          \/ \E t \in Drivers : DriverNotified(t)
          \/ ConnectionLost
          \/ \E e \in BOOLEAN : TrackEnd(e)
          \/ SongEndStart
          \/ SongEndAfterNotice
          \/ SongEndPlayed
          \/ SongEndFailed
          \/ \E q \in Songs : PlayCall(q)
          \/ JoinVoiceChannelOk
          \/ JoinVoiceChannelFailed
          \/ PlayQueued
          \/ PlayStarted
          \/ PlayFailed
       /\ UNCHANGED <<cacheVars, queueVars, sideVars>>
    \/ Tick

SpecHistory == InitHistory /\ [][NextHistory]_vars

(***************************************************************************)
(* C1: while an unexpired entry for a key is stored, no compute call for   *)
(* that key is running or is started, whatever the interleaving of the     *)
(* callers: a caller that missed before the lock and finds the entry       *)
(* published under the lock returns it instead of computing.               *)
(***************************************************************************)
C1_NoComputeWhileFresh ==
    \A c \in Callers :
        cpc[c] = "computing" => ~EntryFresh(cache, ckey[c], now)

C1_Witness ==
    \E c, d \in Callers :
        /\ c # d
        /\ ckey[c] = ckey[d]
        /\ outcome[c] = "computed"
        /\ outcome[d] = "locked_hit"
        /\ EntryFresh(cache, ckey[c], now)

(***************************************************************************)
(* Properties of the voice manager                                         *)
(***************************************************************************)
LiveDrivers == {t \in Drivers : Live(drv[t])}
LiveMonitors == {m \in Monitors : Live(mon[m])}

(***************************************************************************)
(* C2: at most one reconnection driver of the tenant is live at any time.  *)
(***************************************************************************)
C2_AtMostOneLiveDriver == Cardinality(LiveDrivers) <= 1

(***************************************************************************)
(* C3: when disconnect() completes (after the leave command, after the     *)
(* empty-channel event, or inside the inactivity monitor), no reconnection *)
(* driver and no inactivity monitor of the tenant is still live.           *)
(***************************************************************************)
DisconnectCompletes ==
    \/ leave_pc = "disc" /\ leave_pc' = "idle"
    \/ leave_pc = "idle" /\ leave_pc' = "idle" /\ nevents' # nevents
       /\ voice_client /\ ~voice_client' /\ ~connected
    \/ \E m \in Monitors : mon[m].pc = "disc" /\ ~mon[m].cancel /\ mon'[m].pc = "free"

C3_NoneRunningAfterDisconnect ==
    [][DisconnectCompletes => (LiveDrivers = {} /\ LiveMonitors = {})']_vars

(***************************************************************************)
(* C8: at most one inactivity monitor of the tenant is live at any time,   *)
(* and a live monitor is the one registered for the tenant.                *)
(***************************************************************************)
C8_OneRegisteredLiveMonitor ==
    /\ Cardinality(LiveMonitors) <= 1
    /\ \A m \in LiveMonitors : inactivity_task = m


(***************************************************************************)
(* C4: no step of a voluntary leave (disconnect() called by the leave      *)
(* command, the empty-channel event or the inactivity monitor, and the     *)
(* notification of that leave) creates a reconnection driver; the          *)
(* notification that the bot was dropped from its channel while the player *)
(* was playing or paused and a current track is recorded creates one.      *)
(***************************************************************************)
DriverCreated == \E t \in Drivers : drv[t].pc = "free" /\ drv'[t].pc = "new"

VoluntaryLeaveStep ==
    \/ left_pending' # left_pending
    \/ leave_pc' # leave_pc
    \/ DisconnectCompletes

DroppedFromChannel == connected /\ ~connected' /\ ~left_pending'

C4_LeaveVersusLoss ==
    [][/\ VoluntaryLeaveStep => ~DriverCreated
       /\ (DroppedFromChannel /\ st \in {"playing", "paused"} /\ current_song # NoSong)
             => DriverCreated]_vars

(***************************************************************************)
(* C5: in every run of the driver, the wait that precedes attempt k of the *)
(* run (k counted from 0 within the run) is reconnect_backoff * 2^k.       *)
(***************************************************************************)
C5_BackoffPerRun ==
    \A t \in Drivers :
        drv[t].pc = "attempt" => drv[t].slept = reconnect_backoff * (2 ^ drv[t].made)

(***************************************************************************)
(* C6: the failure that brings the attempt counter to                      *)
(* max_reconnect_attempts clears the Session (current track and timing     *)
(* fields) and the transport handle and goes on to send the terminal       *)
(* notice; a driver that sends the terminal notice makes no further        *)
(* attempt, it ends.                                                       *)
(***************************************************************************)
SessionCleared ==
    /\ current_song = NoSong
    /\ song_start_time = None
    /\ pause_duration = None
    /\ last_pause_time = None

C6_ExhaustedCleansUp ==
    [][/\ (reconnect_attempts # max_reconnect_attempts
             /\ reconnect_attempts' = max_reconnect_attempts)
          => /\ SessionCleared'
             /\ ~voice_client'
             /\ \E t \in Drivers : drv[t].pc # "notify" /\ drv'[t].pc = "notify"
       /\ \A t \in Drivers :
             drv[t].pc = "notify" => drv'[t].pc \in {"notify", "free"}]_vars

C6_Witness ==
    \E t \in Drivers :
        /\ drv[t].pc = "notify"
        /\ drv[t].made = max_reconnect_attempts
        /\ reconnect_attempts = max_reconnect_attempts
        /\ SessionCleared
        /\ ~voice_client

(***************************************************************************)
(* C7: the step of a driver that resumes playback after a reconnection     *)
(* leaves the Session with the track X it took over as the current track,  *)
(* with the metadata the extractor serves at that moment, the start        *)
(* timestamp equal to the time of the resume, accumulated pause 0 and no   *)
(* pause-start timestamp, and RecentHistory holds X at index 0.            *)
(***************************************************************************)
ResumeStep(t) ==
    /\ drv[t].pc = "resuming"
    /\ ~drv[t].cancel
    /\ drv[t].song # NoSong
    /\ drv'[t].pc \in {"finishing", "free"}
    /\ st = "idle"
    /\ st' = "playing"

SessionResumed(t) ==
    /\ current_song' = [id |-> drv[t].song.id, rev |-> now]
    /\ song_start_time' = now
    /\ pause_duration' = 0
    /\ last_pause_time' = None

DriverFirstStep(t) ==
    /\ drv[t].pc = "new"
    /\ ~drv[t].cancel
    /\ drv'[t].pc # "new"

C9_DisconnectOnlyWhenInactive ==
    [][\A m \in Monitors :
          (mon[m].pc # "disc" /\ mon'[m].pc = "disc")
             => (mon[m].pc = "sleep" /\ st = "idle" /\ ~humans)]_vars

C9_Witness ==
    \E m \in Monitors : mon[m].pc = "disc" /\ ~connected /\ left_pending

(***************************************************************************)
(* C10: the step at which join_voice_channel has connected, and the step   *)
(* at which a reconnection completes, leave the attempt counter at 0 and a *)
(* newly created inactivity monitor registered for the tenant.             *)
(***************************************************************************)
JoinSucceeds == play.pc = "joining" /\ play'.pc = "extracting"

ReconnectCompletes ==
    \E t \in Drivers :
        /\ drv[t].pc \in {"resuming", "finishing"}
        /\ ~drv[t].cancel
        /\ drv[t].nc
        /\ drv'[t].pc = "free"

FreshMonitorRegistered ==
    /\ inactivity_task' \in Monitors
    /\ mon[inactivity_task'].pc = "free"
    /\ mon'[inactivity_task'] = [pc |-> "new", cancel |-> FALSE]

C10_SuccessResetsAndRestarts ==
    [][(JoinSucceeds \/ ReconnectCompletes)
          => (reconnect_attempts' = 0 /\ FreshMonitorRegistered)]_vars

C10_Witness ==
    /\ reconnect_attempts = 0
    /\ inactivity_task \in Monitors
    /\ mon[inactivity_task] = [pc |-> "new", cancel |-> FALSE]
    /\ \E m \in Monitors : mon[m].pc = "sleep" /\ mon[m].cancel
    /\ \A t \in Drivers : drv[t].pc = "free"
    /\ connected
    /\ st = "playing"
    /\ recent_songs # <<>>
    /\ Head(recent_songs) = current_song.id


(***************************************************************************)
(* Properties of the cache, continued                                      *)
(***************************************************************************)
\* the step in which a computation returns and its result is stored
StoreStep(c) == cpc[c] = "computing" /\ outcome'[c] = "computed"

\* a step in which a get_or_compute call returns the cached value on its
\* first read
HitStep == ncalls' = ncalls + 1 /\ hits' = hits + 1

\* c can be the caller of that step: the others are as they were
HitBy(c) ==
    /\ cpc[c] = "idle"
    /\ cpc'[c] = "idle"
    /\ outcome'[c] = "hit"
    /\ \A d \in Callers \ {c} : ckey'[d] = ckey[d] /\ outcome'[d] = outcome[d]

\* a step in which a get_or_compute call misses on its first read
MissStep(c) == ncalls' = ncalls + 1 /\ cpc[c] = "idle" /\ cpc'[c] # "idle"

(***************************************************************************)
(* C11: the cache never holds more than maxsize entries, in particular     *)
(* after every completed get_or_compute.                                   *)
(***************************************************************************)
C11_SizeAtMostMaxsize == Cardinality(Stored(cache)) <= CacheMaxSize

C11_Witness ==
    \E c \in Callers :
        /\ outcome[c] = "computed"
        /\ ~cache[ckey[c]].present
        /\ now <= CacheTtl
        /\ Cardinality(Stored(cache)) = CacheMaxSize

(***************************************************************************)
(* C12: a store that makes the cache exceed maxsize removes exactly        *)
(* size - maxsize entries, none of which expires later than an entry that  *)
(* is kept; the entries that are kept are as they were (the stored one     *)
(* expires ttl after the store); a store that does not exceed maxsize      *)
(* removes nothing.                                                        *)
(***************************************************************************)
C12_EvictsEarliestExpiry ==
    [][\A c \in Callers :
          StoreStep(c) =>
             LET k == ckey[c]
                 held == Stored(cache) \cup {k}
                 kept == Stored(cache')
                 removed == held \ kept
                 exp(j) == IF j = k THEN now + CacheTtl ELSE cache[j].expires_at
                 over == Cardinality(held) - CacheMaxSize
             IN  /\ kept \subseteq held
                 /\ Cardinality(removed) = IF over > 0 THEN over ELSE 0
                 /\ \A r \in removed, j \in kept : exp(r) <= exp(j)
                 /\ \A j \in kept : cache'[j].expires_at = exp(j)]_vars

C12_Witness ==
    \E c \in Callers, b, d \in Keys :
        /\ outcome[c] = "computed"
        /\ ~cache[ckey[c]].present
        /\ last_cleanup = 0
        /\ cache[b].present
        /\ cache[d].present
        /\ cache[b].expires_at < cache[d].expires_at
        /\ cache[d].expires_at = now + CacheTtl

(***************************************************************************)
(* C13: an entry stored at time T with ttl D, so that expires_at = T + D,  *)
(* is treated as expired at every time >= T + D: a get_or_compute call     *)
(* does not return it, neither on the first read nor on the re-check under *)
(* the lock, get_stats counts it as expired, and cleanup_expired removes   *)
(* it.                                                                     *)
(***************************************************************************)
PastTtl(c, k, t) == c[k].present /\ t >= c[k].expires_at

C13_ExpiredFromTtl ==
    [][/\ HitStep => \E c \in Callers : HitBy(c) /\ ~PastTtl(cache, ckey'[c], now)
       /\ \A c \in Callers :
             (cpc[c] = "waitlock" /\ cpc'[c] # "waitlock"
                 /\ PastTtl(cache, ckey[c], now)) => outcome'[c] # "locked_hit"
       /\ expired_entries(cache, now)
             = Cardinality({k \in Keys : PastTtl(cache, k, now)})
       /\ last_cleanup' # last_cleanup
             => \A k \in Keys : PastTtl(cache, k, now) => ~cache'[k].present]_vars

(***************************************************************************)
(* C14: when the compute function raises, the caller gets the error and    *)
(* the step changes no entry of the cache; no unexpired entry for the key  *)
(* exists afterwards, and a call for a key without an unexpired entry      *)
(* never returns a cached value: it computes (at once, or after waiting    *)
(* for the lock).                                                          *)
(***************************************************************************)
C14_FailureNotCached ==
    [][/\ \A c \in Callers :
             (cpc[c] = "computing" /\ cpc'[c] # "computing" /\ outcome'[c] # "computed")
                => /\ outcome'[c] = "raised"
                   /\ cache' = cache
                   /\ ~EntryFresh(cache', ckey[c], now')
       /\ HitStep => \E c \in Callers : HitBy(c) /\ EntryFresh(cache, ckey'[c], now)
       /\ \A c \in Callers :
             MissStep(c) => /\ ~EntryFresh(cache, ckey'[c], now)
                            /\ cpc'[c] \in {"computing", "waitlock"}
                            /\ outcome'[c] = "pending"]_vars

C14_Witness ==
    \E c, d \in Callers :
        /\ c # d
        /\ outcome[c] = "raised"
        /\ cpc[c] = "idle"
        /\ ckey[d] = ckey[c]
        /\ outcome[d] = "computed"
        /\ misses = 2
        /\ ncalls = 2
        /\ hits = 0


(***************************************************************************)
(* Properties of the queue                                                 *)
(***************************************************************************)
AddStep == nqops' = nqops + 1 /\ qres'.op = "add"
PopStep == nqops' = nqops + 1 /\ qres'.op = "pop"
RemoveStep(i) == nqops' = nqops + 1 /\ qres'.op = "remove" /\ qres'.i = i
MoveStep(i, j) == nqops' = nqops + 1 /\ qres'.op = "move" /\ qres'.i = i /\ qres'.j = j

\* the indices the commands pass
QIndices == {p - 1 : p \in QPositions}

InRange(q, i) == 0 <= i /\ i < Len(q)

(***************************************************************************)
(* C15: the queue never holds more than max_queue_size (500) entries;      *)
(* add_song on a queue that holds 500 entries returns False and leaves the *)
(* queue unchanged, and on a shorter queue it returns True.                *)
(***************************************************************************)
C15_QueueBounded ==
    [][/\ Len(queue') <= max_queue_size
       /\ AddStep => IF Len(queue) >= max_queue_size
                     THEN ~qres'.ok /\ queue' = queue
                     ELSE qres'.ok /\ Len(queue') = Len(queue) + 1]_vars

C15_Witness ==
    /\ qres.op = "add"
    /\ ~qres.ok
    /\ nqops = 2
    /\ queue = Filled(max_queue_size - 1) \o <<Numbered("Y", max_queue_size)>>

(***************************************************************************)
(* C16: as long as remove_song, move_song and shuffle_queue are not        *)
(* called, add_song puts the entry at the end, pop_song returns the entry  *)
(* at the front and removes just that one, so that the entries come out in *)
(* the order in which they were put in; pop_song on an empty queue returns *)
(* None and leaves it empty.                                               *)
(***************************************************************************)
\* the numbers in p, then those of the entries of q, go up
InOrder(p, q) ==
    /\ \A a \in 1..(Len(p) - 1) : p[a] < p[a + 1]
    /\ \A a \in 1..(Len(q) - 1) : q[a].rev < q[a + 1].rev
    /\ (p # <<>> /\ q # <<>>) => p[Len(p)] < q[1].rev

C16_Fifo ==
    [][/\ ~reordered' => InOrder(popped', queue')
       /\ (AddStep /\ qres'.ok) => queue' = Append(queue, Numbered(queue'[Len(queue')].id, qtag'))
       /\ PopStep => IF queue = <<>>
                     THEN ~qres'.ok /\ qres'.val = NoSong /\ queue' = <<>>
                     ELSE qres'.ok /\ qres'.val = Head(queue) /\ queue' = Tail(queue)]_vars

C16_Witness ==
    /\ queue = <<>>
    /\ popped = <<1, 2>>
    /\ qres.op = "pop"
    /\ qres.val = Numbered("X", 2)

(***************************************************************************)
(* C17: remove_song with an index outside 0..length-1, a negative index    *)
(* included, returns False and leaves the queue unchanged; with an index   *)
(* inside the range it returns True and removes that entry, the others     *)
(* keeping their order.                                                    *)
(***************************************************************************)
C17_RemoveOutOfRangeRejected ==
    [][\A i \in QIndices :
          RemoveStep(i) => IF InRange(queue, i)
                           THEN qres'.ok /\ queue' = RemoveAt(queue, i + 1)
                           ELSE ~qres'.ok /\ queue' = queue]_vars

(***************************************************************************)
(* C18: move_song with both indices in 0..length-1 returns True, leaves    *)
(* the moved entry at index j, keeps the length, and keeps the other       *)
(* entries in their order.                                                 *)
(***************************************************************************)
C18_MovePlacesEntry ==
    [][\A i, j \in QIndices :
          (MoveStep(i, j) /\ InRange(queue, i) /\ InRange(queue, j))
             => /\ qres'.ok
                /\ Len(queue') = Len(queue)
                /\ queue'[j + 1] = queue[i + 1]
                /\ RemoveAt(queue', j + 1) = RemoveAt(queue, i + 1)]_vars

C18_Witness ==
    /\ qres.op = "move"
    /\ qres.ok
    /\ qres.i = 0
    /\ qres.j = 2
    /\ nqops = 1
    /\ queue = <<Numbered("X", 2), Numbered("X", 3), Numbered("X", 1)>>

(***************************************************************************)
(* C19: move_song with an index outside 0..length-1, a negative index      *)
(* included, returns False and leaves the queue unchanged.                 *)
(***************************************************************************)
C19_MoveOutOfRangeRejected ==
    [][\A i, j \in QIndices :
          (MoveStep(i, j) /\ ~(InRange(queue, i) /\ InRange(queue, j)))
             => ~qres'.ok /\ queue' = queue]_vars

C19_Witness ==
    /\ qres.op = "move"
    /\ ~qres.ok
    /\ qres.i = -1
    /\ qres.j = 0
    /\ nqops = 1
    /\ queue = Filled(2)

(***************************************************************************)
(* C20: play_song on a connected, idle transport starts playback and       *)
(* creates the session of that track (the track, started now, no pause     *)
(* time) and leaves the queue as it is; play_song on a transport that      *)
(* plays or is paused leaves the transport, the current track and its      *)
(* timing as they are and appends exactly the one entry of the track to    *)
(* the queue.  The steps are those in which a call that holds the handle   *)
(* of the connection passes line 338 and does not answer with an error.    *)
(* As stated the second half fails on a queue of max_queue_size entries:   *)
(* add_song refuses the entry.  C20_StartOrEnqueueBelowCap is the          *)
(* statement with the queue unchanged in that case.                        *)
(***************************************************************************)
PlayAnswers ==
    /\ play.pc = "extracting"
    /\ play.hv
    /\ connected
    /\ play'.pc = "idle"
    /\ play'.sent # "error"

SessionCreated(info) ==
    /\ current_song' = info
    /\ song_start_time' = now
    /\ pause_duration' = 0
    /\ last_pause_time' = None

PlayStarts ==
    /\ st' = "playing"
    /\ SessionCreated(extract_song_info(play.q))
    /\ queue' = queue

PlayKeepsSession ==
    /\ st' = st
    /\ UNCHANGED sessionVars

C20_StartOrEnqueue ==
    [][PlayAnswers =>
          IF st = "idle"
          THEN PlayStarts
          ELSE /\ PlayKeepsSession
               /\ queue' = Append(queue, extract_song_info(play.q))]_vars

C20_StartOrEnqueueBelowCap ==
    [][PlayAnswers =>
          IF st = "idle"
          THEN PlayStarts
          ELSE /\ PlayKeepsSession
               /\ queue' = IF Len(queue) < max_queue_size
                            THEN Append(queue, extract_song_info(play.q))
                            ELSE queue]_vars

\* "Y" was started on the idle transport and "X" queued behind it
C20_Witness ==
    /\ st = "playing"
    /\ current_song.id = "Y"
    /\ Len(queue) = 1
    /\ queue[1].id = "X"
    /\ play = Answered("queued")

(***************************************************************************)
(* C21: the pause-start timestamp of the tenant (last_pause_time) is set   *)
(* exactly while its transport is paused.  The pause command pauses the    *)
(* transport without calling handle_pause (playback_commands.py 207-208),  *)
(* so the transport is paused with no pause-start timestamp.               *)
(***************************************************************************)
C21_PauseStartIffPaused == (last_pause_time # None) <=> (st = "paused")

(***************************************************************************)
(* C22: the elapsed time a progress query computes is the time since the   *)
(* start of the session less the time spent paused; while the transport    *)
(* is paused the computed elapsed time stays the same as time advances.    *)
(* The pause and resume commands never record a pause (see C21), so the    *)
(* elapsed time of a paused session grows with the clock, and after the    *)
(* resume the pause is not subtracted either.                              *)
(***************************************************************************)
\* player.py 53-61, the elapsed time of create_progress_bar
elapsed ==
    LET start_time == IF song_start_time = None THEN now ELSE song_start_time
        paused_before == IF pause_duration = None THEN 0 ELSE pause_duration
        paused_now == IF st = "paused" /\ last_pause_time # None
                      THEN now - last_pause_time
                      ELSE 0
    IN  now - start_time - (paused_before + paused_now)

\* a step of a session that is and stays paused
PausedStep ==
    /\ voice_client /\ connected /\ st = "paused"
    /\ voice_client' /\ connected' /\ st' = "paused"
    /\ current_song # NoSong
    /\ UNCHANGED <<current_song, song_start_time>>

C22_ElapsedConstantWhilePaused == [][PausedStep => elapsed' = elapsed]_vars

(***************************************************************************)
(* C23: when a track finishes, normally or with a playback error, on a     *)
(* connected transport, _handle_song_end inserts the finished track at     *)
(* index 0 of recent_songs and clears the session; it removes the front    *)
(* entry of a queue that is not empty (the rest keeps its order), starts   *)
(* it and makes it the current track with the timing reset; with an empty  *)
(* queue it starts nothing.  The handler records and clears the track that *)
(* is current when it runs: a play_song call that passes line 338 between  *)
(* the end of the track and the scheduled handler starts its own track,    *)
(* and the handler then records that track, not the finished one, and      *)
(* clears the session of the track that plays.                             *)
(***************************************************************************)
\* a scheduled call of _handle_song_end starts (voice.py 383-396)
HandlerStarts ==
    /\ hse.pc = "idle"
    /\ song_end_calls # <<>>
    /\ song_end_calls' = Tail(song_end_calls)

\* the call reaches line 412, at its start or after the error notice
HandlerTakesNext ==
    \/ HandlerStarts /\ hse'.pc # "notify"
    \/ hse.pc = "notify" /\ hse'.pc # "notify" /\ queue' # queue
    \/ hse.pc = "notify" /\ hse'.pc = "idle" /\ queue = <<>>

\* the call passes line 443
HandlerPlays ==
    /\ hse.pc = "extracting"
    /\ hse'.pc = "idle"
    /\ song_end_calls' = song_end_calls
    /\ st' = "playing"

OnTransport == voice_client /\ connected

FinishedRecorded ==
    (HandlerStarts /\ OnTransport /\ Head(song_end_calls).song # "none") =>
        /\ recent_songs' # <<>>
        /\ recent_songs'[1] = Head(song_end_calls).song
        /\ current_song' = NoSong
        /\ song_start_time' = None
        /\ pause_duration' = None
        /\ last_pause_time' = None

NextTaken ==
    (HandlerTakesNext /\ OnTransport) =>
        IF queue # <<>>
        THEN /\ queue' = Tail(queue)
             /\ hse'.pc = "extracting"
             /\ hse'.next = Head(queue)
        ELSE /\ queue' = queue
             /\ hse' = NoHse
             /\ st' = st

NextStarted ==
    HandlerPlays =>
        /\ current_song' = hse.next
        /\ song_start_time' = now
        /\ pause_duration' = 0
        /\ last_pause_time' = None
        /\ queue' = queue

C23_TrackEndAdvances ==
    [][FinishedRecorded /\ NextTaken /\ NextStarted]_vars

(***************************************************************************)
(* C24: when starting the next track fails, _handle_song_end is entered    *)
(* again for the following entry of the queue.  Every such chain of calls  *)
(* ends; each failed start has consumed exactly one entry; and the number  *)
(* of start attempts of a chain is at most the length of the queue when    *)
(* the chain began.  The last part fails when play_song queues entries     *)
(* while the chain runs: the chain tries those too.                        *)
(* C24_ChainEndsEntryPerAttempt is the statement with the count replaced   *)
(* by its cause: every start attempt follows the removal of one entry, and *)
(* a failed start puts nothing back and schedules the next call.           *)
(***************************************************************************)
ChainRunning == hse.pc # "idle" \/ song_end_calls # <<>>

\* a call takes an entry and begins to start it
AttemptBegins == hse.pc # "extracting" /\ hse'.pc = "extracting"

\* the start of the entry taken raised (voice.py 464-467)
AttemptFails ==
    /\ hse.pc = "extracting"
    /\ hse'.pc = "idle"
    /\ song_end_calls' # song_end_calls

ChainEnds == ChainRunning ~> ~ChainRunning

EntryPerAttempt ==
    /\ AttemptBegins =>
          /\ queue # <<>>
          /\ queue' = Tail(queue)
          /\ hse'.next = Head(queue)
          /\ hse'.chain.tries = 1 + (IF hse.pc = "notify" THEN hse.chain
                                      ELSE Head(song_end_calls).chain).tries
    /\ AttemptFails =>
          /\ queue' = queue
          /\ song_end_calls' = Append(song_end_calls, ReEntry(hse.chain))

AttemptsWithinQueue ==
    hse.pc = "extracting" => hse.chain.tries <= hse.chain.len0

SliceTo(seq, k) ==
    IF k >= 0
    THEN SubSeq(seq, 1, IF k < Len(seq) THEN k ELSE Len(seq))
    ELSE SubSeq(seq, 1, IF Len(seq) + k > 0 THEN Len(seq) + k ELSE 0)

\* voice.py 490-493
get_recently_played(limit) ==
    SliceTo(recent_songs, IF limit < Len(recent_songs) THEN limit ELSE Len(recent_songs))

\* statistics.py 104, 115: the limit the history command passes
HistoryLimits ==
    {IF l < 1 THEN 1 ELSE IF l > 20 THEN 20 ELSE l : l \in 0..21}

RecentBounded ==
    /\ Len(recent_songs) <= max_recent_songs
    /\ \A limit \in HistoryLimits :
          LET r == get_recently_played(limit)
          IN  /\ Len(r) = IF limit < Len(recent_songs) THEN limit ELSE Len(recent_songs)
              /\ \A i \in 1..Len(r) : r[i] = recent_songs[i]

RecordedNewestFirst ==
    recent_songs' # recent_songs =>
        /\ Len(recent_songs') =
              IF Len(recent_songs) < max_recent_songs
              THEN Len(recent_songs) + 1 ELSE max_recent_songs
        /\ recent_songs'[1] = current_song.id
        /\ \A i \in 2..Len(recent_songs') : recent_songs'[i] = recent_songs[i - 1]

C25_RecentHistoryBounded == []RecentBounded /\ [][RecordedNewestFirst]_vars

\* two more tracks were recorded and the oldest entry dropped
C25_Witness ==
    /\ Len(recent_songs) = max_recent_songs
    /\ recent_songs[1] \in Songs
    /\ recent_songs[2] \in Songs
    /\ recent_songs[max_recent_songs] = "R3"

(***************************************************************************)
(* C26: the step in which stop, leave/disconnect or the exhaustion of the  *)
(* reconnection attempts does its clean-up leaves the tenant without a     *)
(* current track, start timestamp, pause duration and pause-start          *)
(* timestamp (the entries are removed); leave/disconnect and exhaustion    *)
(* also remove the transport handle.                                       *)
(***************************************************************************)
\* disconnect() reaches its clean-up (voice.py 475-478): after the awaited
\* voice_client.disconnect(), or at once without a connected handle
DisconnectCleansUp ==
    \/ DisconnectCompletes
    \/ (LeaveCommand \/ EmptyChannelLeave) /\ ~(voice_client /\ connected)

\* a reconnection driver finds its attempts exhausted (voice.py 269-275) and
\* goes on to its notice when it has a channel for it (278); this tells the
\* step from the break of line 205, which ends the run at once
ExhaustionStep ==
    \E t \in Drivers :
        /\ drv[t].pc \notin {"free", "notify"}
        /\ ~drv[t].cancel
        /\ LET nc == IF drv[t].pc = "new" THEN command_channel ELSE drv[t].nc
           IN  drv'[t].pc = (IF nc THEN "notify" ELSE "free")
        /\ reconnect_attempts' >= max_reconnect_attempts

C26_SessionRemoved ==
    [][/\ StopCommand => SessionCleared'
       /\ DisconnectCleansUp => SessionCleared' /\ ~voice_client'
       /\ ExhaustionStep => SessionCleared' /\ ~voice_client']_vars

\* just after the stop command stopped "X" or "Y": its player's end is not
\* yet handled and the session is gone
C26_Witness ==
    /\ connected
    /\ voice_client
    /\ st = "idle"
    /\ queue = <<>>
    /\ SessionCleared
    /\ song_end_calls # <<>>
    /\ Head(song_end_calls).song \in Songs
    /\ ~Head(song_end_calls).had_error

(***************************************************************************)
(* C27: extract_song_info resolves through the cache; when the cached path *)
(* raises it makes a direct call of the extraction and returns its result; *)
(* the call fails only if the direct call fails too, the error of the      *)
(* cached path alone never reaches the caller, and a failed result is      *)
(* never stored.                                                           *)
(***************************************************************************)
\* the cached path of caller c raises
CachePathRaises(c) ==
    /\ cpc[c] = "computing"
    /\ cpc'[c] # "computing"
    /\ outcome'[c] # "computed"

\* the call of caller c ends
ExtractEnds(c) == cpc[c] # "idle" /\ cpc'[c] = "idle"

ExtractFallback ==
    \A c \in Callers :
        /\ (cpc[c] = "idle" /\ cpc'[c] # "idle") =>
              cpc'[c] \in {"computing", "waitlock"}
        /\ CachePathRaises(c) =>
              /\ cpc'[c] = "direct"
              /\ cache' = cache
        /\ ExtractEnds(c) =>
              IF cpc[c] = "direct"
              THEN /\ outcome'[c] \in {"direct", "failed"}
                   /\ cache' = cache
              ELSE outcome'[c] \in {"computed", "locked_hit"}

NoCacheErrorOut == \A c \in Callers : outcome[c] # "raised"

C27_FallsBackToDirect == []NoCacheErrorOut /\ [][ExtractFallback]_vars

\* the cached path of a call raised, its direct call returned, and nothing
\* is stored for its key
C27_Witness ==
    \E c \in Callers :
        /\ cpc[c] = "idle"
        /\ outcome[c] = "direct"
        /\ ~cache[ckey[c]].present

(***************************************************************************)
(* C28: every play command that sets the tenant's processing flag          *)
(* eventually leaves the flag cleared, whatever its outcome.               *)
(***************************************************************************)
C28_FlagEventuallyCleared == processing ~> ~processing

(***************************************************************************)
(* C30: every outbound transport-join call and every outbound extraction   *)
(* call is preceded by awaiting the shared throttle, and two consecutive   *)
(* calls of the same kind are at least min_api_interval apart; for         *)
(* concurrent callers and for the calls of play, end-of-track advance, the *)
(* reconnection driver and batch ingestion.                                *)
(***************************************************************************)
\* coroutine c makes an outbound call of the kind
Outbound(c, kind) ==
    /\ Running(c)
    /\ Due(c) = Call(kind)
    /\ thr'[c] # thr[c]

ThrottleAwaited(c, kind) == kind \in thr[c].awaited

ApartFromLast(kind) ==
    last_out[kind] # None => now - last_out[kind] >= min_api_interval

C30_CallsThrottled ==
    [][\A c \in Callers, kind \in ApiKinds :
          Outbound(c, kind) => ThrottleAwaited(c, kind) /\ ApartFromLast(kind)]_vars

(***************************************************************************)
(* C29: every operation and every failure on one tenant leaves every other *)
(* tenant's queue, Session, transport handle, RecentHistory, reconnect     *)
(* attempt counter and background tasks unchanged.                         *)
(***************************************************************************)
\* what the dicts hold for guild h
TenantState(h) ==
    [queue |-> tenants.queues[h],
     session |-> <<tenants.current_songs[h], tenants.song_start_times[h],
                   tenants.pause_durations[h], tenants.last_pause_time[h]>>,
     handle |-> tenants.voice_clients[h],
     recent |-> tenants.recent_songs[h],
     attempts |-> tenants.reconnect_attempts[h],
     tasks |-> <<tenants.reconnect_tasks[h], tenants.inactivity_timeouts[h]>>]

C29_OtherTenantsUnchanged ==
    [][\A h \in Guilds : h # op_guild' => TenantState(h)' = TenantState(h)]_vars

\* the reconnection of one guild is exhausted while a track plays in another
\* guild that has entries queued and tasks running
C29_Witness ==
    \E g, h \in Guilds :
        /\ g # h
        /\ op_guild = g
        /\ tenants.reconnect_attempts[g] = max_reconnect_attempts
        /\ ~tenants.voice_clients[g]
        /\ tenants.current_songs[g] = NoSong
        /\ Playing(h)
        /\ tenants.queues[h] # <<>>
        /\ tenants.recent_songs[h] # <<>>
        /\ tenants.inactivity_timeouts[h]

(***************************************************************************)
(* C31: at most one compute call is in flight per cache instance at any    *)
(* time, even for different keys: the lock is held across the whole        *)
(* compute call, a second miss and cleanup_expired wait until the compute  *)
(* has returned or raised, and the lock is released afterwards.            *)
(***************************************************************************)
Computing == {c \in Callers : cpc[c] = "computing"}

LockHeldByCompute ==
    /\ Cardinality(Computing) <= 1
    /\ \A c \in Callers : c \in Computing <=> lock = c

ComputeSerialized ==
    /\ misses' # misses => Computing = {}
    /\ CleanupExpired => Computing = {}
    /\ \A c \in Callers :
          (c \in Computing /\ cpc'[c] # "computing") => lock' = 0

C31_OneComputePerInstance == []LockHeldByCompute /\ [][ComputeSerialized]_vars

\* one caller computes while another, with a different key, waits for the lock
C31_Witness ==
    \E c, d \in Callers :
        /\ cpc[c] = "computing"
        /\ cpc[d] = "waitlock"
        /\ ckey[c] # ckey[d]

(***************************************************************************)
(* C32: batch ingestion yields to the scheduler before each track          *)
(* resolution and waits batch_delay between two batches, so no two         *)
(* resolutions of one ingestion run back-to-back; a failure on one track   *)
(* does not stop the ingestion of the remaining tracks.                    *)
(***************************************************************************)
ResolutionStarts == ing.pc # "extract" /\ ing'.pc = "extract"
ResolutionEnds == ing.pc = "extract" /\ ing' # ing
SleepEnds == ing.pc = "sleep" /\ ing'.pc # "sleep"

C32_IngestionYields ==
    [][/\ ResolutionStarts => ing.pc = "yield"
       /\ ResolutionEnds =>
             IF ing.left > 1
             THEN ing'.pc = "sleep" /\ ing'.left = ing.left - 1 /\ ing'.since = now
             ELSE ing'.pc = "idle"
       /\ SleepEnds =>
             /\ now >= ing.since + batch_delay
             /\ ing'.pc = "yield"
             /\ ing'.left = ing.left]_vars

\* the resolution of one track failed (nothing was queued), the task slept
\* batch_delay and has yielded before the next resolution
C32_Witness ==
    /\ ing.pc = "extract"
    /\ ing.left = 1
    /\ queue = <<>>
    /\ st = "playing"
    /\ now >= batch_delay

\* SpecSkip: /skip on a tenant in a voice channel whose queue holds n distinct
\* entries, among /play commands with a Spotify URL of one or two tracks and
\* track ends
SkipPositions == 0..(MaxQueueLen + 1)

InitSkip ==
    /\ InitConnected
    /\ recent_songs = <<>>
    /\ play = NoPlay
    /\ \E n \in 0..MaxQueueLen : queue = Filled(n)

NextSkip ==
    \/ SpotifyAfterFirst
    \/ /\ ~FirstReturned
       /\ \/ SpotifyCall
          \/ CatalogRaises
          \/ CatalogEmpty
          \/ CatalogReturnsMany(2)
          \/ CatalogReturnsOne("X")
          \/ SpotifyAcked("X")
          \/ IngestSteps
          \/ /\ \/ \E p \in SkipPositions : SkipCommand(p)
                \/ SkipCurrent
                \/ PlayQueued
                \/ PlayStarted
                \/ PlayFailed
                \/ \E e \in BOOLEAN : TrackEnd(e)
                \/ SongEndStart
                \/ SongEndAfterNotice
                \/ SongEndPlayed
                \/ SongEndFailed
             /\ UNCHANGED <<cacheVars, queueVars, sideVars>>

SpecSkip == InitSkip /\ [][NextSkip]_vars

(***************************************************************************)
(* C33: /skip with a position from 1 to the length of the queue, given     *)
(* while a track plays or is paused, stops the track, discards the         *)
(* position - 1 entries before the target, and the next track the          *)
(* end-of-track advance starts is the target; a position out of range or   *)
(* an empty queue changes neither the queue nor the playback.              *)
(* As stated this fails: the command is declined while a Spotify link is   *)
(* being processed for the guild (navigation_commands.py 49), whatever the *)
(* position.  C33_SkipToPosition is the statement with that condition      *)
(* added, and with the start of the target stated as the code has it: the  *)
(* target is at the head of the queue, nothing but a later /skip or the    *)
(* advance itself moves the head, and the advance takes the head and       *)
(* starts it.                                                              *)
(***************************************************************************)
SkipInRange(position) ==
    /\ connected
    /\ st # "idle"
    /\ position >= 1
    /\ position <= Len(queue)

SkipStops(position) ==
    /\ st' = "idle"
    /\ queue' = SubSeq(queue, position, Len(queue))
    /\ Len(queue') = Len(queue) - (position - 1)
    /\ queue'[1] = queue[position]
    /\ song_end_calls' = Append(song_end_calls, EndCall(FALSE, current_song.id))

SkipDeclined == UNCHANGED <<st, queue, sessionVars, song_end_calls, hse>>

SkipActs ==
    \A p \in SkipPositions :
        SkipCommand(p) =>
            IF SkipInRange(p) /\ ~processing THEN SkipStops(p) ELSE SkipDeclined

HeadKept ==
    (queue # <<>> /\ ~HandlerTakesNext /\ ~(\E p \in SkipPositions : SkipCommand(p))) =>
        /\ queue' # <<>>
        /\ Head(queue') = Head(queue)

TargetTaken ==
    (HandlerTakesNext /\ queue # <<>>) =>
        /\ queue' = Tail(queue)
        /\ hse'.pc = "extracting"
        /\ hse'.next = Head(queue)

TargetStarted == HandlerPlays => current_song' = hse.next /\ queue' = queue

NextStop ==
    \/ SpotifyAfterFirst
    \/ /\ ~FirstReturned
       /\ \/ SpotifyCall
          \/ CatalogRaises
          \/ CatalogEmpty
          \/ CatalogReturnsMany(2)
          \/ CatalogReturnsOne("X")
          \/ SpotifyAcked("X")
          \/ IngestSteps
          \/ /\ \/ StopCommand
                \/ PlayQueued
                \/ PlayStarted
                \/ PlayFailed
                \/ SongEndStart
                \/ SongEndAfterNotice
                \/ SongEndPlayed
                \/ SongEndFailed
             /\ UNCHANGED <<cacheVars, queueVars, sideVars>>

SpecStop == InitSkip /\ [][NextStop]_vars

(***************************************************************************)
(* C34: when /stop completes the queue is empty and the session is cleared *)
(* while the handle is kept, and the end-of-track callback that the stop   *)
(* triggers does not start another track.                                  *)
(***************************************************************************)
StopClears ==
    StopCommand =>
        /\ queue' = <<>>
        /\ current_song' = NoSong
        /\ song_start_time' = None
        /\ pause_duration' = None
        /\ last_pause_time' = None
        /\ st' = "idle"
        /\ voice_client' /\ connected'

\* the call scheduled when /stop ended the player starts
StopCallbackRuns == HandlerStarts /\ Head(song_end_calls).song # "none"

StopCallbackIdle ==
    StopCallbackRuns => hse' = NoHse /\ queue' = queue /\ st' = st

\* C34: /stop leaves an empty queue, a cleared session and the handle, and
\* the callback of the stopped player takes no entry and starts no track
C34_StopEndsPlayback == [][StopClears /\ StopCallbackIdle]_vars

(***************************************************************************)
(* C35: every entry the end-of-track advance removes from the queue either *)
(* becomes the current track or has had a failed start attempt; no entry   *)
(* is removed while the handle is absent or not connected, so that an      *)
(* unexpected disconnect followed by a reconnection leaves the queue as it *)
(* was.                                                                    *)
(***************************************************************************)
AdvanceRemoves == HandlerTakesNext /\ queue # <<>> /\ queue' = Tail(queue)

RemovedIsAttempted ==
    AdvanceRemoves => hse'.pc = "extracting" /\ hse'.next = Head(queue)

AttemptEnds ==
    (hse.pc = "extracting" /\ hse'.pc = "idle") =>
        \/ current_song' = hse.next /\ st' = "playing"
        \/ song_end_calls' = Append(song_end_calls, ReEntry(hse.chain))

NotRemovedOffTransport ==
    (HandlerTakesNext /\ ~OnTransport) => queue' = queue

\* C35: an entry the advance removes is started or has a failed start, and
\* the advance removes nothing without a connected handle
C35_AdvanceLosesNoEntry ==
    [][RemovedIsAttempted /\ AttemptEnds /\ NotRemovedOffTransport]_vars

\* SpecLeave: /leave on a tenant in a voice channel, among /play commands
\* with a Spotify URL of one or two tracks
NextLeave ==
    \/ SpotifyAfterFirst
    \/ /\ ~FirstReturned
       /\ \/ SpotifyCall
          \/ CatalogRaises
          \/ CatalogEmpty
          \/ CatalogReturnsMany(2)
          \/ CatalogReturnsOne("X")
          \/ SpotifyAcked("X")
          \/ IngestSteps
          \/ /\ \/ LeaveCommand
                \/ DisconnectDone
                \/ PlaySongSteps
                \/ \E m \in Monitors : MonitorStart(m)
                \/ SongEndStart
                \/ SongEndAfterNotice
                \/ SongEndPlayed
                \/ SongEndFailed
             /\ UNCHANGED <<cacheVars, queueVars, sideVars>>

SpecLeave == InitSkip /\ [][NextLeave]_vars

(***************************************************************************)
(* C36: once disconnect has completed for a tenant, its queue stays empty  *)
(* and its session stays cleared until the next play command, also when a  *)
(* batch ingestion task was in flight at the time of the leave.            *)
(***************************************************************************)
DisconnectReturns == leave_pc = "disc" /\ leave_pc' = "idle"

DisconnectClears ==
    DisconnectReturns =>
        /\ queue' = <<>>
        /\ current_song' = NoSong
        /\ ~voice_client'

\* disconnect has completed and no play command has been given since
Departed ==
    /\ ~voice_client
    /\ leave_pc = "idle"
    /\ play.pc = "idle"
    /\ sp.pc = "idle"
    /\ queue = <<>>
    /\ current_song = NoSong

PlayCommandGiven == play'.pc # "idle" \/ sp'.pc # "idle"

DepartedStaysCleared ==
    (Departed /\ ~PlayCommandGiven) => queue' = <<>> /\ current_song' = NoSong

\* C36: disconnect leaves the queue empty and the session cleared, and they
\* stay so until a play command is given
C36_ClearedUntilNextPlay == [][DisconnectClears /\ DepartedStaysCleared]_vars

(***************************************************************************)
(* C37: whenever a run of the reconnection driver ends without having      *)
(* reconnected and without having been cancelled, the session and the      *)
(* transport handle of the tenant have been cleared and the terminal       *)
(* failure notice has been sent.                                           *)
(* As stated this fails: when bot.get_guild returns None after the wait    *)
(* the loop is left by break (voice.py 203-205) with attempts below the    *)
(* maximum, the clean-up of 269-285 is skipped and the run ends having     *)
(* changed nothing.  C37_ExhaustedRunCleansUp is the statement for the     *)
(* runs that end with their attempts exhausted, with the other exit named. *)
(***************************************************************************)
RunEnds(t) == drv[t].pc # "free" /\ ~drv[t].cancel /\ drv'[t].pc = "free"

RunReconnected(t) ==
    /\ drv[t].pc \in {"attempt", "resuming", "finishing"}
    /\ reconnect_attempts' = 0
    /\ drv[t].pc = "attempt" => (~connected /\ connected')

\* the run ends at its terminal notice (voice.py 278-285)
EndsNotified(t) == drv[t].pc = "notify"

\* the notice is reached through the clean-up of 273-275 only
CleanUpBeforeNotice ==
    \A t \in Drivers :
        (drv[t].pc # "notify" /\ drv'[t].pc = "notify") =>
            SessionCleared' /\ ~voice_client'

\* the run ends at the break of line 205
EndsGuildGone(t) ==
    /\ drv[t].pc = "attempt"
    /\ drv[t].attempts < max_reconnect_attempts
    /\ UNCHANGED <<voice_client, sessionVars, reconnect_attempts, connected>>

\* C37 as stated: a run that ends neither reconnected nor cancelled ends at
\* its terminal notice, after the clean-up
C37_UnreconnectedRunCleansUp ==
    [][/\ CleanUpBeforeNotice
       /\ \A t \in Drivers :
             (RunEnds(t) /\ ~RunReconnected(t)) => EndsNotified(t)]_vars

\* C37: a run that ends neither reconnected nor cancelled ends at its
\* terminal notice, after the clean-up of the session and the handle, or it
\* ends because the guild is gone, and then it has changed nothing
C37_ExhaustedRunCleansUp ==
    [][/\ CleanUpBeforeNotice
       /\ \A t \in Drivers :
             (RunEnds(t) /\ ~RunReconnected(t)) =>
                 (EndsNotified(t) \/ EndsGuildGone(t))]_vars

C37_Witness ==
    /\ \A t \in Drivers : drv[t].pc = "free"
    /\ reconnect_attempts = max_reconnect_attempts
    /\ reconnect_task = 0
    /\ SessionCleared
    /\ ~voice_client
    /\ ~connected

(***************************************************************************)
(* C38: whenever play_song reports a track as added at position p, the     *)
(* track is in the queue at position p (counted from 1) when the report is *)
(* made; no track is reported as queued while the queue holds              *)
(* max_queue_size entries.                                                 *)
(***************************************************************************)
\* play_song passes line 338 and sends the "added to queue" embed
QueuedReported ==
    /\ play.pc = "extracting"
    /\ play'.pc = "idle"
    /\ play'.sent = "queued"

ReportedEntryQueued ==
    /\ position_in_queue <= Len(queue')
    /\ queue'[position_in_queue] = extract_song_info(play.q)

\* C38: a track reported as queued at a position is in the queue at that
\* position, and nothing is reported as queued on a full queue
C38_ReportedPositionHolds ==
    [][QueuedReported =>
          (ReportedEntryQueued /\ Len(queue) < max_queue_size)]_vars

\* SpecCalls: the calls of get_or_compute on one cache by tasks that can be
\* cancelled, with the clock
NextCalls ==
    \/ /\ \/ \E c \in Callers, k \in Keys : GetCall(c, k)
          \/ \E c \in Callers : AcquireLock(c)
          \/ \E c \in Callers : WaitCancelled(c)
          \/ \E c \in Callers : ComputeReturn(c)
          \/ \E c \in Callers : ComputeRaise(c)
       /\ UNCHANGED <<voiceVars, nevents, queueVars, sideVars>>
    \/ Tick

SpecCalls == Init /\ [][NextCalls]_vars

(***************************************************************************)
(* C39: after any set of get_or_compute calls that have all returned or    *)
(* raised, hits + misses is the number of those calls: each call adds one  *)
(* to exactly one of the two counters, once (a hit at the read of line 76  *)
(* or at the re-check of line 85, else a miss), and a computation that     *)
(* raises still counts as one miss.                                        *)
(* As stated this fails for a call whose task is cancelled while it waits  *)
(* for the lock: Lock.acquire raises CancelledError before line 84 and the *)
(* call has counted nothing.  C39_CountsCallsPastTheLock counts the calls  *)
(* that got past the read of line 76 or past the lock.                     *)
(***************************************************************************)
AllCallsEnded == \A c \in Callers : cpc[c] = "idle"

Waiting == {c \in Callers : cpc[c] = "waitlock"}

\* a call ends, by return or by an exception
CallEnds(c) == cpc[c] # "idle" /\ cpc'[c] = "idle"

\* C39 as stated: when no call is in flight the counters add up to the calls
C39_CountersSumToCalls == AllCallsEnded => hits + misses = ncalls

CountsOnce ==
    /\ hits' + misses' \in {hits + misses, hits + misses + 1}
    /\ \A c \in Callers :
          /\ (cpc[c] = "computing" /\ CallEnds(c)) => UNCHANGED <<hits, misses>>
          /\ (cpc[c] = "waitlock" /\ cpc'[c] = "computing") =>
                 (misses' = misses + 1 /\ hits' = hits)
          /\ (cpc[c] = "waitlock" /\ CallEnds(c)) =>
                 \/ outcome'[c] = "locked_hit" /\ hits' = hits + 1 /\ misses' = misses
                 \/ outcome'[c] = "cancelled" /\ UNCHANGED <<hits, misses>>

\* the calls cancelled at the lock so far
CancelledAtLock == ncalls - Cardinality(Waiting) - (hits + misses)

\* C39: every call that was not cancelled while waiting for the lock has
\* added one to exactly one counter by the time it is past the lock, and
\* adds nothing afterwards, also when its computation raises
C39_CountsCallsPastTheLock ==
    /\ [](CancelledAtLock >= 0)
    /\ [][CountsOnce /\ (CancelledAtLock' # CancelledAtLock =>
                            \E c \in Callers :
                                /\ cpc[c] = "waitlock"
                                /\ outcome'[c] = "cancelled"
                                /\ CancelledAtLock' = CancelledAtLock + 1)]_vars

C39_Witness ==
    /\ AllCallsEnded
    /\ ncalls = MaxCalls
    /\ hits >= 1
    /\ misses >= 2
    /\ hits + misses = ncalls
    /\ \E c \in Callers : outcome[c] = "raised"
    /\ \E c \in Callers : outcome[c] = "locked_hit"

=========================================================================
